---- MODULE Spec2Model ----
(***************************************************************************)
(* Stream translation of testdriver_proxy.proxy.ZAIProxy._stream_response: *)
(* an async generator that opens one streamed POST to the backend, reads   *)
(* the response line by line and yields client frames.                     *)
(*                                                                         *)
(* A backend line is a sequence of tokens; the string operations of the    *)
(* code (strip, startswith, line[6:], json.loads) are modelled on tokens.  *)
(* A Python value (a parsed JSON value, a dict of the outgoing chunk) is a *)
(* record tagged by its type.  The field `created` of a chunk (wall clock) *)
(* is not modelled.                                                        *)
(***************************************************************************)
EXTENDS Integers, Sequences, FiniteSets, TLC

VARIABLES
    lines,      \* lines[r]: the line sequence the backend sends to stream r
    model,      \* model[r]: request.model of stream r
    pc,         \* pc[r]: "idle" | "created" | "streaming" | "ended" | "failed"
                \*        | "closed", and the positions of the endpoint
    pos,        \* pos[r]: number of backend lines read by stream r
    out,        \* out[r]: frames yielded to the client by stream r
    err,        \* err[r]: the exception that ended stream r, or "none"
    status,     \* status[r]: HTTP status of the backend response, 0 before it
    chunk_id,   \* chunk_id[r]: the id drawn at the start of stream r
    config,     \* the Config the proxy was built with
    req,        \* req[r]: the ChatCompletionRequest of request r
    zai_request,\* zai_request[r]: the backend request built for request r
    calls,      \* calls[r]: outbound backend calls issued for request r
    resp,       \* resp[r]: the HTTP response the endpoint gave to request r
    posted,     \* posted[r]: what the backend does with the POST of request r
    http_exception_str, \* what str() of an HTTPException gives in this process
    conn,       \* conn[r]: "none" | "open" | "released", the streamed POST of r
    app         \* the application create_app was asked for: its state, and
                \* the message of the error that create_app raised

vars == <<lines, model, pc, pos, out, err, status, chunk_id,
          config, req, zai_request, calls, resp, posted, http_exception_str,
          conn, app>>

\* the variables of the endpoint that the generator does not touch
reqvars == <<config, req, zai_request, resp, posted, http_exception_str, app>>

(***************************************************************************)
(* Bounds of the model.                                                    *)
(***************************************************************************)
MaxLines == 2
MaxBaseLines == 2
MaxDeltas == 3

Runs == {1, 2}

(***************************************************************************)
(* Python values.                                                          *)
(***************************************************************************)
None == [t |-> "null"]
PyStr(s) == [t |-> "str", s |-> s]
PyNum(n) == [t |-> "num", n |-> n]
PyList(n) == [t |-> "list", len |-> n]
EmptyDict == [k \in {} |-> k]
PyDict(f) == [t |-> "dict", f |-> f]

IsDict(v) == v.t = "dict"

\* dict.get(key, default)
Get(d, key, default) == IF key \in DOMAIN d.f THEN d.f[key] ELSE default

\* truth value of a Python value, as tested by `if stop_reason:`
Truthy(v) ==
    CASE v.t = "null" -> FALSE
      [] v.t = "str"  -> v.s # ""
      [] v.t = "num"  -> v.n # 0
      [] v.t = "bool" -> v.b
      [] v.t = "float" -> v.tenths # 0
      [] v.t = "list" -> v.len > 0
      [] v.t = "dict" -> DOMAIN v.f # {}

\* whether a value can be a dict key (finish_reason_map.get raises TypeError otherwise)
Hashable(v) == v.t \notin {"list", "dict"}

(***************************************************************************)
(* Backend lines as token sequences.                                       *)
(***************************************************************************)
TData == [k |-> "data: "]
TEvent == [k |-> "event: "]
TWs == [k |-> " "]
TDone == [k |-> "[DONE]"]
TText(s) == [k |-> "text", s |-> s]      \* text that is no JSON document
TJson(v) == [k |-> "json", v |-> v]      \* the text of the JSON value v

RECURSIVE Lstrip(_)
Lstrip(l) == IF l # <<>> /\ l[1] = TWs THEN Lstrip(Tail(l)) ELSE l

RECURSIVE Rstrip(_)
Rstrip(l) ==
    IF l # <<>> /\ l[Len(l)] = TWs THEN Rstrip(SubSeq(l, 1, Len(l) - 1)) ELSE l

\* str.strip()
Strip(l) == Rstrip(Lstrip(l))

\* str.startswith(prefix)
StartsWith(l, tok) == l # <<>> /\ l[1] = tok

\* json.loads(line): the value, or a JSONDecodeError
JsonLoads(l) ==
    LET s == Strip(l) IN
    IF Len(s) = 1 /\ s[1].k = "json"
    THEN [ok |-> TRUE, v |-> s[1].v]
    ELSE [ok |-> FALSE, v |-> None]

(***************************************************************************)
(* Frames yielded to the client.                                           *)
(***************************************************************************)
DoneFrame == [kind |-> "done", id |-> "", model |-> "", index |-> 0,
              delta |-> EmptyDict, finish_reason |-> None]

\* a chunk whose id is drawn anew when the chunk carries a finish_reason
ChunkFrameFreshId(id, m, delta, finish_reason) ==
    [kind |-> "chunk",
     id |-> IF finish_reason = [t |-> "null"] THEN id
            ELSE CHOOSE other \in {"chatcmpl-0a1b2c3d", "chatcmpl-4e5f6a7b"} : other # id,
     model |-> m, index |-> 0,
     delta |-> delta, finish_reason |-> finish_reason]

\* "data: " + ChatCompletionChunk(...).model_dump_json() + "\n\n"
ChunkFrame(id, m, delta, finish_reason) ==
    [kind |-> "chunk", id |-> id, model |-> m, index |-> 0,
     delta |-> delta, finish_reason |-> finish_reason]

(***************************************************************************)
(* What one iteration of the loop does with the line it read.              *)
(***************************************************************************)
Skip == [act |-> "skip", frame |-> DoneFrame, exc |-> "none"]
Yield(frame) == [act |-> "yield", frame |-> frame, exc |-> "none"]
YieldDoneAndBreak == [act |-> "break", frame |-> DoneFrame, exc |-> "none"]
Raise(e) == [act |-> "raise", frame |-> DoneFrame, exc |-> e]

\* a table that falls back to "length"
finish_reason_map_default_length(stop_reason) ==
    CASE stop_reason = PyStr("end_turn")      -> "stop"
      [] stop_reason = PyStr("max_tokens")    -> "length"
      [] stop_reason = PyStr("stop_sequence") -> "stop"
      [] OTHER                                -> "length"

finish_reason_map(stop_reason) ==
    CASE stop_reason = PyStr("end_turn")      -> "stop"
      [] stop_reason = PyStr("max_tokens")    -> "length"
      [] stop_reason = PyStr("stop_sequence") -> "stop"
      [] OTHER                                -> "stop"

\* `if not line or line.strip() == "": continue`
IsBlankLine(line) == line = <<>> \/ Strip(line) = <<>>

\* `if line.startswith("data: "): line = line[6:]`
StripDataPrefix(line) == IF StartsWith(line, TData) THEN Tail(line) ELSE line

\* the sentinel compared without strip()
IsDoneLineNoStrip(line) == line = <<TDone>>

\* `if line.strip() == "[DONE]"`
IsDoneLine(line) == Strip(line) = <<TDone>>

\* `if line.startswith("event: "): continue`
IsEventLine(line) == StartsWith(line, TEvent)

\* the decode error not caught
OnJSONDecodeErrorUncaught == Raise("JSONDecodeError")

\* `except json.JSONDecodeError: logger.warning(...); continue`
OnJSONDecodeError == Skip

\* the text looked up under the wrong key
ContentBlockDeltaWrongKey(zai_chunk) ==
    LET delta_data == Get(zai_chunk, "delta", PyDict(EmptyDict)) IN
    IF ~IsDict(delta_data) THEN [exc |-> "AttributeError", delta |-> EmptyDict]
    ELSE IF Get(delta_data, "type", None) = PyStr("text_delta")
    THEN [exc |-> "none",
          delta |-> [content |-> Get(delta_data, "content", PyStr(""))]]
    ELSE [exc |-> "none", delta |-> EmptyDict]

\* the branch `elif event_type == "content_block_delta"`
ContentBlockDelta(zai_chunk) ==
    LET delta_data == Get(zai_chunk, "delta", PyDict(EmptyDict)) IN
    IF ~IsDict(delta_data) THEN [exc |-> "AttributeError", delta |-> EmptyDict]
    ELSE IF Get(delta_data, "type", None) = PyStr("text_delta")
    THEN [exc |-> "none",
          delta |-> [content |-> Get(delta_data, "text", PyStr(""))]]
    ELSE [exc |-> "none", delta |-> EmptyDict]

\* the stop reason passed on without the table lookup
MessageDeltaUnmapped(zai_chunk) ==
    LET d == Get(zai_chunk, "delta", PyDict(EmptyDict)) IN
    IF ~IsDict(d) THEN [exc |-> "AttributeError", finish_reason |-> None]
    ELSE [exc |-> "none", finish_reason |-> Get(d, "stop_reason", None)]

\* a missing stop reason read as a normal end, as the unary path reads it
MessageDeltaDefaultStop(zai_chunk) ==
    LET d == Get(zai_chunk, "delta", PyDict(EmptyDict)) IN
    IF ~IsDict(d) THEN [exc |-> "AttributeError", finish_reason |-> None]
    ELSE LET stop_reason == Get(d, "stop_reason", None) IN
         IF ~Truthy(stop_reason) THEN [exc |-> "none", finish_reason |-> PyStr("stop")]
         ELSE IF ~Hashable(stop_reason)
         THEN [exc |-> "TypeError", finish_reason |-> None]
         ELSE [exc |-> "none",
               finish_reason |-> PyStr(finish_reason_map(stop_reason))]

\* the branch `elif event_type == "message_delta"`
MessageDelta(zai_chunk) ==
    LET d == Get(zai_chunk, "delta", PyDict(EmptyDict)) IN
    IF ~IsDict(d) THEN [exc |-> "AttributeError", finish_reason |-> None]
    ELSE LET stop_reason == Get(d, "stop_reason", None) IN
         IF ~Truthy(stop_reason) THEN [exc |-> "none", finish_reason |-> None]
         ELSE IF ~Hashable(stop_reason)
         THEN [exc |-> "TypeError", finish_reason |-> None]
         ELSE [exc |-> "none",
               finish_reason |-> PyStr(finish_reason_map(stop_reason))]

\* `elif event_type == "message_stop": continue`
OnMessageStop == Skip

\* an event type none of the branches names: delta and finish_reason keep
\* their initial values and the chunk is built and yielded
OnOtherEvent(id, m) == Yield(ChunkFrame(id, m, EmptyDict, None))

\* lines 204-250: the parsed value to at most one chunk
TranslateChunk(zai_chunk, id, m) ==
    IF ~IsDict(zai_chunk) THEN Raise("AttributeError")
    ELSE
    LET event_type == Get(zai_chunk, "type", None) IN
    CASE event_type = PyStr("content_block_start") ->
            Yield(ChunkFrame(id, m,
                  [role |-> PyStr("assistant"), content |-> PyStr("")], None))
      [] event_type = PyStr("content_block_delta") ->
            LET b == ContentBlockDelta(zai_chunk) IN
            IF b.exc # "none" THEN Raise(b.exc)
            ELSE Yield(ChunkFrame(id, m, b.delta, None))
      [] event_type = PyStr("message_delta") ->
            LET b == MessageDelta(zai_chunk) IN
            IF b.exc # "none" THEN Raise(b.exc)
            ELSE Yield(ChunkFrame(id, m, EmptyDict, b.finish_reason))
      [] event_type = PyStr("message_stop") -> OnMessageStop
      [] OTHER -> OnOtherEvent(id, m)

\* a loop body whose event-line check falls through to the chunk it builds
ProcessLineEventFallsThrough(line0, id, m) ==
    IF IsBlankLine(line0) THEN Skip
    ELSE
    LET line == StripDataPrefix(line0) IN
    IF IsDoneLine(line) THEN YieldDoneAndBreak
    ELSE IF IsEventLine(line) THEN Yield(ChunkFrame(id, m, EmptyDict, None))
    ELSE LET parsed == JsonLoads(line) IN
         IF ~parsed.ok THEN OnJSONDecodeError
         ELSE TranslateChunk(parsed.v, id, m)

\* the body of `async for line in response.aiter_lines()`
ProcessLine(line0, id, m) ==
    IF IsBlankLine(line0) THEN Skip
    ELSE
    LET line == StripDataPrefix(line0) IN
    IF IsDoneLine(line) THEN YieldDoneAndBreak
    ELSE IF IsEventLine(line) THEN Skip
    ELSE LET parsed == JsonLoads(line) IN
         IF ~parsed.ok THEN OnJSONDecodeError
         ELSE TranslateChunk(parsed.v, id, m)

(***************************************************************************)
(* Inputs.                                                                 *)
(***************************************************************************)
Models == {"glm-4.5", "glm-4.5v"}
Ids == {"chatcmpl-0a1b2c3d", "chatcmpl-4e5f6a7b"}
Statuses == {200, 404, 500}

Event(type) == PyDict([type |-> PyStr(type)])
TextDelta(text) ==
    PyDict([type |-> PyStr("content_block_delta"),
            delta |-> PyDict([type |-> PyStr("text_delta"), text |-> PyStr(text)])])
MsgDelta(stop_reason) ==
    PyDict([type |-> PyStr("message_delta"),
            delta |-> PyDict([stop_reason |-> stop_reason])])
DataLine(v) == <<TData, TJson(v)>>

ValidEventLines ==
    { DataLine(Event("content_block_start")),
      DataLine(TextDelta("Hi")),
      DataLine(TextDelta("!")),
      DataLine(PyDict([type |-> PyStr("content_block_delta"),
                       delta |-> PyDict([type |-> PyStr("input_json_delta"),
                                         partial_json |-> PyStr("{")])])),
      DataLine(Event("content_block_stop")),
      DataLine(MsgDelta(PyStr("end_turn"))),
      DataLine(MsgDelta(PyStr("max_tokens"))),
      DataLine(MsgDelta(PyStr("stop_sequence"))),
      DataLine(MsgDelta(PyStr("tool_use"))),
      DataLine(MsgDelta(PyStr(""))),
      DataLine(MsgDelta(None)),
      DataLine(Event("message_delta")),
      DataLine(PyDict([type |-> PyStr("content_block_delta"),
                       delta |-> PyDict([type |-> PyStr("text_delta")])])),
      DataLine(Event("message_stop")),
      DataLine(Event("message_start")),
      <<TJson(Event("ping"))>>,
      DataLine(PyDict([id |-> PyStr("chatcmpl-test")])) }

\* lines on which json.loads raises JSONDecodeError
UndecodableLines ==
    { <<TData, TText("oops")>>,
      <<TData>>,
      <<TData, TData, TDone>>,
      <<TText("data:[DONE]")>>,
      <<TJson(None), TJson(None)>> }

\* lines that parse, but not to the payload the code expects
UnexpectedPayloadLines ==
    { DataLine(PyNum(5)),
      DataLine(None),
      DataLine(PyStr("x")),
      DataLine(PyList(0)),
      DataLine(PyDict([type |-> PyStr("content_block_delta"), delta |-> None])),
      DataLine(PyDict([type |-> PyStr("message_delta"), delta |-> PyStr("x")])),
      DataLine(MsgDelta(PyList(1))) }

DoneLines == { <<TData, TDone>>, <<TDone>>, <<TData, TWs, TDone, TWs>>, <<TWs, TDone>> }

BlankLines == { <<>>, <<TWs>> }

EventLines == { <<TEvent, TText("content_block_delta")>>,
                <<TData, TEvent, TText("ping")>> }

LineSet ==
    ValidEventLines \cup UndecodableLines \cup UnexpectedPayloadLines
        \cup DoneLines \cup BlankLines \cup EventLines

SeqsUpTo(S, n) == UNION { [1..k -> S] : k \in 0..n }

(***************************************************************************)
(* Requests and transform_request.                                         *)
(***************************************************************************)
PyBool(b) == [t |-> "bool", b |-> b]
PyFloat(tenths) == [t |-> "float", tenths |-> tenths]
PyListOf(items) == [t |-> "list", len |-> Len(items), items |-> items]

\* models.Message
Message(role, content, name) == [role |-> role, content |-> content, name |-> name]

\* Message.model_dump()
model_dump(msg) == [role |-> msg.role, content |-> msg.content, name |-> msg.name]

DefaultPort == 8000
DefaultMaxTokens == 2000
DefaultTimeout == 60
DefaultMaxRetries == 3

\* config.Config: the fields that validate checks or the proxy consults
DefaultConfig ==
    [port |-> DefaultPort, max_tokens |-> DefaultMaxTokens,
     temperature |-> PyFloat(7), timeout |-> DefaultTimeout,
     max_retries |-> DefaultMaxRetries]

\* the application: not yet asked for, built and serving, or refused
Configuring == [state |-> "configuring", error |-> ""]
Serving == [state |-> "serving", error |-> ""]
Refused(e) == [state |-> "refused", error |-> e.cls \o ": " \o e.text]

\* models.ChatCompletionRequest with its defaults (model is model[r])
Request(messages, max_tokens, stop, temperature, top_p, stream) ==
    [messages |-> messages, temperature |-> temperature, top_p |-> top_p,
     n |-> PyNum(1), stream |-> stream, stop |-> stop, max_tokens |-> max_tokens,
     presence_penalty |-> PyNum(0), frequency_penalty |-> PyNum(0),
     logit_bias |-> None, user |-> None]

DefaultRequest(stream) ==
    Request(<<Message("user", PyStr("Hello"), None)>>, None, None,
            PyFloat(7), PyFloat(10), PyBool(stream))

\* `a or b`
PyOr(a, b) == IF Truthy(a) THEN a ELSE b

\* a loop that puts each message before the ones already copied
RECURSIVE ExtractSystemPrepending(_, _, _)
ExtractSystemPrepending(msgs, system_content, messages) ==
    IF msgs = <<>> THEN [system_content |-> system_content, messages |-> messages]
    ELSE LET msg == Head(msgs) IN
         IF msg.role = "system"
         THEN ExtractSystemPrepending(Tail(msgs), msg.content, messages)
         ELSE ExtractSystemPrepending(Tail(msgs), system_content,
                                      <<model_dump(msg)>> \o messages)

\* the loop over request.messages: the last system content, the other messages
RECURSIVE ExtractSystem(_, _, _)
ExtractSystem(msgs, system_content, messages) ==
    IF msgs = <<>> THEN [system_content |-> system_content, messages |-> messages]
    ELSE LET msg == Head(msgs) IN
         IF msg.role = "system"
         THEN ExtractSystem(Tail(msgs), msg.content, messages)
         ELSE ExtractSystem(Tail(msgs), system_content,
                            Append(messages, model_dump(msg)))

\* `if system_content: zai_request["system"] = system_content`
SystemField(system_content) ==
    IF Truthy(system_content) THEN [system |-> system_content] ELSE EmptyDict

\* `"max_tokens": request.max_tokens or self.config.max_tokens`
MaxTokensField(request, cfg) == PyOr(request.max_tokens, PyNum(cfg.max_tokens))

\* `if request.stop: zai_request["stop_sequences"] = ...`
StopField(request) ==
    IF Truthy(request.stop)
    THEN [stop_sequences |->
            IF request.stop.t = "list" THEN request.stop
            ELSE PyListOf(<<request.stop>>)]
    ELSE EmptyDict

\* a field written under `if value:`
OptionalFieldIfTruthy(key, value) ==
    IF Truthy(value) THEN (key :> value) ELSE EmptyDict

\* `if request.temperature is not None: zai_request["temperature"] = ...`
OptionalField(key, value) ==
    IF value # None THEN (key :> value) ELSE EmptyDict

\* a transform that passes the end-user identifier on
transform_request_forwarding_user(request, m, cfg) ==
    LET x == ExtractSystem(request.messages, None, <<>>) IN
    [model |-> PyStr(m),
     messages |-> x.messages,
     max_tokens |-> MaxTokensField(request, cfg),
     stream |-> request.stream]
      @@ SystemField(x.system_content)
      @@ OptionalField("temperature", request.temperature)
      @@ OptionalField("top_p", request.top_p)
      @@ StopField(request)
      @@ OptionalField("user", request.user)

\* ZAIProxy.transform_request: the backend request as a dict
transform_request(request, m, cfg) ==
    LET x == ExtractSystem(request.messages, None, <<>>) IN
    [model |-> PyStr(m),
     messages |-> x.messages,
     max_tokens |-> MaxTokensField(request, cfg),
     stream |-> request.stream]
      @@ SystemField(x.system_content)
      @@ OptionalField("temperature", request.temperature)
      @@ OptionalField("top_p", request.top_p)
      @@ StopField(request)

\* the HTTP response of the endpoint; kind "none" before there is one
NoResponse ==
    [kind |-> "none", status_code |-> 0, error |-> EmptyDict, result |-> EmptyDict]

\* StreamingResponse(result, media_type="text/event-stream")
StreamingResponse ==
    [kind |-> "stream", status_code |-> 200, error |-> EmptyDict, result |-> EmptyDict]

\* no non-streaming POST is under way
NotPosted ==
    [kind |-> "none", exc |-> [cls |-> "none", text |-> "", status_code |-> 0],
     status_code |-> 0, json |-> None]

\* str() of an HTTPException: Starlette releases without HTTPException.__str__
\* give "" for keyword-only construction, later ones "<status_code>: <detail>"
HTTPExceptionStrs == {"empty", "status_detail"}

\* the state in which chat_completion has returned the generator of each
\* stream that is "created": the request is transformed, no call is made yet
StreamReady ==
    /\ config = DefaultConfig
    /\ req = [r \in Runs |-> DefaultRequest(TRUE)]
    /\ zai_request =
            [r \in Runs |-> transform_request(DefaultRequest(TRUE), model[r], DefaultConfig)]
    /\ calls = [r \in Runs |-> 0]
    /\ resp = [r \in Runs |-> IF pc[r] = "created" THEN StreamingResponse ELSE NoResponse]
    /\ posted = [r \in Runs |-> NotPosted]
    /\ http_exception_str = "status_detail"

(***************************************************************************)
(* The generator.                                                          *)
(***************************************************************************)
\* a terminator emitted on the way out, as a `finally: yield` would
PropagateAfterDone(r, e) ==
    /\ pc' = [pc EXCEPT ![r] = "failed"]
    /\ err' = [err EXCEPT ![r] = e]
    /\ out' = [out EXCEPT ![r] = Append(out[r], DoneFrame)]

\* an exception leaves the generator: nothing in _stream_response catches it
Propagate(r, e) ==
    /\ pc' = [pc EXCEPT ![r] = "failed"]
    /\ err' = [err EXCEPT ![r] = e]
    /\ out' = out

\* the body of `async with self.client.stream(...)` is entered
Acquire(r) == conn' = [conn EXCEPT ![r] = "open"]

\* the body of `async with self.client.stream(...)` is left, by whatever way
Release(r) == conn' = [conn EXCEPT ![r] = "released"]

\* a generator that keeps the id it draws in a field of the proxy
StartSharingChunkId(r) ==
    /\ pc[r] = "created"
    /\ calls' = [calls EXCEPT ![r] = calls[r] + 1]
    /\ \E id \in Ids :
        /\ chunk_id' = [q \in Runs |-> id]
        /\ \/ /\ Propagate(r, "ConnectError")
              /\ UNCHANGED <<status, conn>>
           \/ \E s \in Statuses :
                /\ status' = [status EXCEPT ![r] = s]
                /\ IF s \in 200..299
                   THEN /\ pc' = [pc EXCEPT ![r] = "streaming"]
                        /\ Acquire(r)
                        /\ UNCHANGED <<err, out>>
                   ELSE /\ Propagate(r, "HTTPStatusError")
                        /\ Release(r)
    /\ UNCHANGED <<lines, model, pos, reqvars>>

\* first __anext__: chunk_id is drawn, the POST is sent, raise_for_status runs
Start(r) ==
    /\ pc[r] = "created"
    /\ calls' = [calls EXCEPT ![r] = calls[r] + 1]
    /\ \E id \in Ids :
        /\ chunk_id' = [chunk_id EXCEPT ![r] = id]
        /\ \/ /\ Propagate(r, "ConnectError")
              /\ UNCHANGED <<status, conn>>
           \/ \E s \in Statuses :
                /\ status' = [status EXCEPT ![r] = s]
                /\ IF s \in 200..299
                   THEN /\ pc' = [pc EXCEPT ![r] = "streaming"]
                        /\ Acquire(r)
                        /\ UNCHANGED <<err, out>>
                   ELSE /\ Propagate(r, "HTTPStatusError")
                        /\ Release(r)
    /\ UNCHANGED <<lines, model, pos, reqvars>>

\* a loop whose iteration hands each frame over twice
NextLineYieldingTwice(r) ==
    /\ pc[r] = "streaming"
    /\ pos[r] < Len(lines[r])
    /\ pos' = [pos EXCEPT ![r] = pos[r] + 1]
    /\ LET res == ProcessLine(lines[r][pos[r] + 1], chunk_id[r], model[r]) IN
       CASE res.act = "skip" -> UNCHANGED <<pc, err, out, conn>>
         [] res.act = "yield" ->
              /\ out' = [out EXCEPT ![r] = out[r] \o <<res.frame, res.frame>>]
              /\ UNCHANGED <<pc, err, conn>>
         [] res.act = "break" ->
              /\ out' = [out EXCEPT ![r] = Append(out[r], res.frame)]
              /\ pc' = [pc EXCEPT ![r] = "ended"]
              /\ Release(r)
              /\ UNCHANGED err
         [] res.act = "raise" -> Propagate(r, res.exc) /\ Release(r)
    /\ UNCHANGED <<lines, model, status, chunk_id, calls, reqvars>>

\* the frames of the first n lines of stream r, in order
RECURSIVE FramesUpTo(_, _)
FramesUpTo(r, n) ==
    IF n = 0 THEN <<>>
    ELSE LET res == ProcessLine(lines[r][n], chunk_id[r], model[r]) IN
         IF res.act \in {"yield", "break"}
         THEN Append(FramesUpTo(r, n - 1), res.frame)
         ELSE FramesUpTo(r, n - 1)

\* a loop that collects the frames and hands them over when the stream is done
NextLineBuffered(r) ==
    /\ pc[r] = "streaming"
    /\ pos[r] < Len(lines[r])
    /\ pos' = [pos EXCEPT ![r] = pos[r] + 1]
    /\ LET res == ProcessLine(lines[r][pos[r] + 1], chunk_id[r], model[r]) IN
       CASE res.act \in {"skip", "yield"} -> UNCHANGED <<pc, err, out, conn>>
         [] res.act = "break" ->
              /\ out' = [out EXCEPT ![r] = FramesUpTo(r, pos[r] + 1)]
              /\ pc' = [pc EXCEPT ![r] = "ended"]
              /\ Release(r)
              /\ UNCHANGED err
         [] res.act = "raise" -> Propagate(r, res.exc) /\ Release(r)
    /\ UNCHANGED <<lines, model, status, chunk_id, calls, reqvars>>

\* one iteration of the loop over response.aiter_lines()
NextLine(r) ==
    /\ pc[r] = "streaming"
    /\ pos[r] < Len(lines[r])
    /\ pos' = [pos EXCEPT ![r] = pos[r] + 1]
    /\ LET res == ProcessLine(lines[r][pos[r] + 1], chunk_id[r], model[r]) IN
       CASE res.act = "skip" -> UNCHANGED <<pc, err, out, conn>>
         [] res.act = "yield" ->
              /\ out' = [out EXCEPT ![r] = Append(out[r], res.frame)]
              /\ UNCHANGED <<pc, err, conn>>
         [] res.act = "break" ->
              /\ out' = [out EXCEPT ![r] = Append(out[r], res.frame)]
              /\ pc' = [pc EXCEPT ![r] = "ended"]
              /\ Release(r)
              /\ UNCHANGED err
         [] res.act = "raise" -> Propagate(r, res.exc) /\ Release(r)
    /\ UNCHANGED <<lines, model, status, chunk_id, calls, reqvars>>

\* aiter_lines is exhausted: the loop and the generator end
EndOfLines(r) ==
    /\ pc[r] = "streaming"
    /\ pos[r] = Len(lines[r])
    /\ pc' = [pc EXCEPT ![r] = "ended"]
    /\ Release(r)
    /\ UNCHANGED <<lines, model, pos, out, err, status, chunk_id, calls, reqvars>>

\* aiter_lines raises: the connection broke while the body was being read
ReadFails(r) ==
    /\ pc[r] = "streaming"
    /\ Propagate(r, "ReadError")
    /\ Release(r)
    /\ UNCHANGED <<lines, model, pos, status, chunk_id, calls, reqvars>>

Init ==
    /\ \E ls \in SeqsUpTo(LineSet, MaxLines) : lines = <<ls, <<>>>>
    /\ \E m \in Models : model = [r \in Runs |-> m]
    /\ pc = <<"created", "idle">>
    /\ pos = [r \in Runs |-> 0]
    /\ out = [r \in Runs |-> <<>>]
    /\ err = [r \in Runs |-> "none"]
    /\ status = [r \in Runs |-> 0]
    /\ chunk_id = [r \in Runs |-> ""]
    /\ conn = [r \in Runs |-> "none"]
    /\ app = Serving
    /\ StreamReady

Next ==
    \/ Start(1)
    \/ NextLine(1)
    \/ EndOfLines(1)
    \/ ReadFails(1)

Spec == Init /\ [][Next]_vars

(***************************************************************************)
(* Two runs of the translator on inputs that differ by one undecodable     *)
(* line: run 1 reads the base sequence with the line inserted, run 2 reads *)
(* the base sequence.  Run 2 is started once run 1 has run to completion:  *)
(* to the end of its loop, or to an exception raised while translating.    *)
(***************************************************************************)
TwinLineSet ==
    { DataLine(Event("content_block_start")),
      DataLine(TextDelta("Hi")),
      DataLine(TextDelta("!")),
      DataLine(Event("content_block_stop")),
      DataLine(MsgDelta(PyStr("end_turn"))),
      DataLine(MsgDelta(PyStr("max_tokens"))),
      DataLine(Event("message_stop")),
      DataLine(Event("ping")),
      <<TData, TDone>> }

InsertAt(s, p, x) == SubSeq(s, 1, p) \o <<x>> \o SubSeq(s, p + 1, Len(s))

InitTwin ==
    /\ \E b \in SeqsUpTo(TwinLineSet, MaxBaseLines) :
       \E p \in 0..Len(b) :
       \E x \in UndecodableLines :
            lines = <<InsertAt(b, p, x), b>>
    /\ \E m \in Models : model = [r \in Runs |-> m]
    /\ pc = [r \in Runs |-> "created"]
    /\ pos = [r \in Runs |-> 0]
    /\ out = [r \in Runs |-> <<>>]
    /\ err = [r \in Runs |-> "none"]
    /\ status = [r \in Runs |-> 0]
    /\ chunk_id = [r \in Runs |-> ""]
    /\ conn = [r \in Runs |-> "none"]
    /\ app = Serving
    /\ StreamReady

TransportErrors == {"ConnectError", "HTTPStatusError", "ReadError"}

\* the loop of stream r was left without a transport failure
Completed(r) ==
    \/ pc[r] = "ended"
    \/ pc[r] = "failed" /\ err[r] \notin TransportErrors

NextTwin ==
    \/ Start(1)
    \/ NextLine(1)
    \/ EndOfLines(1)
    \/ ReadFails(1)
    \/ Completed(1) /\ Start(2)
    \/ Completed(1) /\ NextLine(2)
    \/ Completed(1) /\ EndOfLines(2)
    \/ Completed(1) /\ ReadFails(2)

SpecTwin == InitTwin /\ [][NextTwin]_vars

(***************************************************************************)
(* Well-formed backend streams: content_block_start, k text deltas,        *)
(* message_delta with a stop reason, message_stop; either bare data lines  *)
(* or framed as the backend frames them (an "event: <kind>" line before    *)
(* and a blank line after each data line).                                 *)
(***************************************************************************)
Texts == {"Hi", "!", ""}
StopReasons == {"end_turn", "max_tokens", "stop_sequence", "tool_use"}

WellFormedEvents(ts, r) ==
    <<Event("content_block_start")>>
        \o [i \in 1..Len(ts) |-> TextDelta(ts[i])]
        \o <<MsgDelta(PyStr(r)), Event("message_stop")>>

RECURSIVE Framed(_)
Framed(evs) ==
    IF evs = <<>> THEN <<>>
    ELSE <<<<TEvent, TText(Head(evs).f.type.s)>>, DataLine(Head(evs)), <<>>>>
            \o Framed(Tail(evs))

Bare(evs) == [i \in 1..Len(evs) |-> DataLine(evs[i])]

InitWellFormed ==
    /\ \E ts \in SeqsUpTo(Texts, MaxDeltas) :
       \E r \in StopReasons :
       \E framed \in BOOLEAN :
            lines = <<IF framed THEN Framed(WellFormedEvents(ts, r))
                      ELSE Bare(WellFormedEvents(ts, r)), <<>>>>
    /\ \E m \in Models : model = [r \in Runs |-> m]
    /\ pc = <<"created", "idle">>
    /\ pos = [r \in Runs |-> 0]
    /\ out = [r \in Runs |-> <<>>]
    /\ err = [r \in Runs |-> "none"]
    /\ status = [r \in Runs |-> 0]
    /\ chunk_id = [r \in Runs |-> ""]
    /\ conn = [r \in Runs |-> "none"]
    /\ app = Serving
    /\ StreamReady

SpecWellFormed == InitWellFormed /\ [][Next]_vars

(***************************************************************************)
(* The non-streaming path and the endpoint.                                *)
(***************************************************************************)
\* an exception object: its class, its message, the status of its response
Exc(cls, text) == [cls |-> cls, text |-> text, status_code |-> 0]

\* httpx.HTTPStatusError as raised by response.raise_for_status()
HTTPStatusError(s) ==
    [cls |-> "HTTPStatusError",
     text |-> (IF s \in 400..499 THEN "Client error '" ELSE "Server error '")
                \o ToString(s) \o "' for url '/v1/messages'",
     status_code |-> s]

\* HTTPException(status_code=..., detail=...)
HTTPException(status_code, detail) ==
    [cls |-> "HTTPException", text |-> detail, status_code |-> status_code]

\* str(e)
str(e, build) ==
    IF e.cls = "HTTPException"
    THEN IF build = "empty" THEN ""
         ELSE ToString(e.status_code) \o ": " \o e.text
    ELSE e.text

Returns(v) == [act |-> "return", v |-> v, exc |-> Exc("none", "")]
Raises(e) == [act |-> "raise", v |-> EmptyDict, exc |-> e]

\* a loop that takes the text of every block that has one, whatever its type
RECURSIVE ConcatEveryText(_, _)
ConcatEveryText(blocks, content_text) ==
    IF blocks = <<>> THEN Returns(content_text)
    ELSE LET content_block == Head(blocks) IN
         IF ~IsDict(content_block)
         THEN Raises(Exc("AttributeError", "object has no attribute 'get'"))
         ELSE LET text == Get(content_block, "text", PyStr("")) IN
              IF text.t # "str"
              THEN Raises(Exc("TypeError", "can only concatenate str to str"))
              ELSE ConcatEveryText(Tail(blocks), content_text \o text.s)

\* the text of the content blocks of type "text", or the exception of the loop
RECURSIVE ConcatTextBlocks(_, _)
ConcatTextBlocks(blocks, content_text) ==
    IF blocks = <<>> THEN Returns(content_text)
    ELSE LET content_block == Head(blocks) IN
         IF ~IsDict(content_block)
         THEN Raises(Exc("AttributeError", "object has no attribute 'get'"))
         ELSE IF Get(content_block, "type", None) # PyStr("text")
         THEN ConcatTextBlocks(Tail(blocks), content_text)
         ELSE LET text == Get(content_block, "text", PyStr("")) IN
              IF text.t # "str"
              THEN Raises(Exc("TypeError", "can only concatenate str to str"))
              ELSE ConcatTextBlocks(Tail(blocks), content_text \o text.s)

\* `if "content" in zai_response: for content_block in zai_response["content"]`
\* for a body that is a dict, a list without the string "content", or null
ContentText(zai_response) ==
    CASE zai_response.t = "null" ->
            Raises(Exc("TypeError", "argument of type 'NoneType' is not iterable"))
      [] zai_response.t = "list" -> Returns("")
      [] zai_response.t = "dict" ->
            IF "content" \notin DOMAIN zai_response.f THEN Returns("")
            ELSE LET content == zai_response.f["content"] IN
                 CASE content.t = "list" -> ConcatTextBlocks(content.items, "")
                   [] content.t \in {"null", "num"} ->
                        Raises(Exc("TypeError", "object is not iterable"))
                   [] content.t = "str" ->
                        IF content.s = "" THEN Returns("")
                        ELSE Raises(Exc("AttributeError", "'str' object has no attribute 'get'"))
                   [] content.t = "dict" ->
                        IF DOMAIN content.f = {} THEN Returns("")
                        ELSE Raises(Exc("AttributeError", "'str' object has no attribute 'get'"))

\* the value as an f-string shows it
Format(v) ==
    CASE v.t = "str"  -> v.s
      [] v.t = "null" -> "None"
      [] v.t = "num"  -> ToString(v.n)

\* a usage that takes the total the backend sent, when it sent one
UsageOfBackendTotal(zai_response) ==
    LET usage == Get(zai_response, "usage", PyDict(EmptyDict)) IN
    IF ~IsDict(usage)
    THEN Raises(Exc("AttributeError", "object has no attribute 'get'"))
    ELSE LET input_tokens == Get(usage, "input_tokens", PyNum(0))
             output_tokens == Get(usage, "output_tokens", PyNum(0))
         IN  IF input_tokens.t # "num" \/ output_tokens.t # "num"
             THEN Raises(Exc("TypeError", "unsupported operand type(s) for +"))
             ELSE Returns([prompt_tokens |-> input_tokens.n,
                           completion_tokens |-> output_tokens.n,
                           total_tokens |->
                              Get(usage, "total_tokens",
                                  PyNum(input_tokens.n + output_tokens.n)).n])

\* Usage(prompt_tokens=..., completion_tokens=..., total_tokens=... + ...)
\* for token counts that are integers, null or missing
UsageOf(zai_response) ==
    LET usage == Get(zai_response, "usage", PyDict(EmptyDict)) IN
    IF ~IsDict(usage)
    THEN Raises(Exc("AttributeError", "object has no attribute 'get'"))
    ELSE LET input_tokens == Get(usage, "input_tokens", PyNum(0))
             output_tokens == Get(usage, "output_tokens", PyNum(0))
         IN  IF input_tokens.t # "num" \/ output_tokens.t # "num"
             THEN Raises(Exc("TypeError", "unsupported operand type(s) for +"))
             ELSE Returns([prompt_tokens |-> input_tokens.n,
                           completion_tokens |-> output_tokens.n,
                           total_tokens |-> input_tokens.n + output_tokens.n])

\* a response that has no choice when there is no text
ChatCompletionResponseNoEmptyChoice(id, m, content_text, finish_reason, usage) ==
    [id |-> id, object |-> "chat.completion", model |-> m,
     choices |-> IF content_text = "" THEN <<>>
                 ELSE << [index |-> 0,
                          message |-> [role |-> "assistant", content |-> content_text],
                          finish_reason |-> finish_reason] >>,
     usage |-> usage]

\* models.ChatCompletionResponse (created, the clock reading, is left out)
ChatCompletionResponse(id, m, content_text, finish_reason, usage) ==
    [id |-> id, object |-> "chat.completion", model |-> m,
     choices |-> << [index |-> 0,
                     message |-> [role |-> "assistant", content |-> content_text],
                     finish_reason |-> finish_reason] >>,
     usage |-> usage]

\* the translation of the decoded backend body; hex is uuid.uuid4().hex[:8]
TranslateResponse(zai_response, m, hex) ==
    LET content_text == ContentText(zai_response) IN
    IF content_text.act = "raise" THEN content_text
    ELSE IF ~IsDict(zai_response)
    THEN Raises(Exc("AttributeError", "'list' object has no attribute 'get'"))
    ELSE LET stop_reason == Get(zai_response, "stop_reason", PyStr("stop")) IN
         IF ~Hashable(stop_reason)
         THEN Raises(Exc("TypeError", "unhashable type"))
         ELSE LET usage == UsageOf(zai_response) IN
              IF usage.act = "raise" THEN usage
              ELSE Returns(ChatCompletionResponse(
                      "chatcmpl-" \o Format(Get(zai_response, "id", PyStr(hex))),
                      m, content_text.v, finish_reason_map(stop_reason), usage.v))

\* what `await self.client.post(...)` gives: an exception or a response
PostRaises(e) == [kind |-> "raise", exc |-> e, status_code |-> 0, json |-> None]
PostResponse(status_code, json) ==
    [kind |-> "response", exc |-> Exc("none", ""), status_code |-> status_code,
     json |-> json]

\* a body that response.json() cannot decode
Undecodable == [t |-> "undecodable"]

\* ZAIProxy._non_stream_response from the outcome of the POST on
_non_stream_response(post, m, hex) ==
    IF post.kind = "raise" THEN Raises(post.exc)
    ELSE IF post.status_code \notin 200..299
    THEN Raises(HTTPStatusError(post.status_code))
    ELSE IF post.json = Undecodable
    THEN Raises(Exc("JSONDecodeError", "Expecting value: line 1 column 1 (char 0)"))
    ELSE TranslateResponse(post.json, m, hex)

\* ZAIProxy.chat_completion, non-streaming branch: every exception of the
\* try block leaves as HTTPException(status_code=500, detail=str(e))
chat_completion(post, m, hex, build) ==
    LET result == _non_stream_response(post, m, hex) IN
    IF result.act = "raise"
    THEN Raises(HTTPException(500, str(result.exc, build)))
    ELSE result

\* models.ErrorResponse.create(...).model_dump()["error"]
ErrorResponseCreate(message, type, code) ==
    [message |-> message, type |-> type]
      @@ (IF code # "" THEN [code |-> code] ELSE EmptyDict)

JSONResponse(status_code, error) ==
    [kind |-> "json", status_code |-> status_code, error |-> error,
     result |-> EmptyDict]

\* an exception that no handler of the endpoint catches
Unanswered == [kind |-> "escaped", status_code |-> 0, error |-> EmptyDict,
               result |-> EmptyDict]

\* the handlers of the endpoint without the `except Exception` clause
EndpointExceptOnlyStatusError(e, build) ==
    IF e.cls = "HTTPStatusError"
    THEN JSONResponse(e.status_code,
                      ErrorResponseCreate("Z.ai API error", "api_error",
                                         ToString(e.status_code)))
    ELSE Unanswered

\* the `except` clauses of the endpoint chat_completions, in their order
EndpointExcept(e, build) ==
    IF e.cls = "HTTPStatusError"
    THEN JSONResponse(e.status_code,
                      ErrorResponseCreate("Z.ai API error", "api_error",
                                         ToString(e.status_code)))
    ELSE JSONResponse(500, ErrorResponseCreate(str(e, build), "internal_error", ""))

\* the endpoint chat_completions for stream=False, from the POST outcome on
chat_completions(post, m, hex, build) ==
    LET result == chat_completion(post, m, hex, build) IN
    IF result.act = "raise" THEN EndpointExcept(result.exc, build)
    ELSE [kind |-> "json", status_code |-> 200, error |-> EmptyDict,
          result |-> result.v]

\* the exception class raised inside chat_completion's try block, or "none"
RaisedInside(post, m, hex) == _non_stream_response(post, m, hex).exc.cls

(***************************************************************************)
(* Inputs of the endpoint.                                                 *)
(***************************************************************************)
Hex8 == {"0a1b2c3d", "4e5f6a7b"}

ExcTexts == {"All connection attempts failed",
             "[Errno -2] Name or service not known"}

TextBlock(text) == PyDict([type |-> PyStr("text"), text |-> PyStr(text)])

Bodies ==
    { PyDict([id |-> PyStr("msg_1"),
              content |-> PyListOf(<<TextBlock("Hi"), TextBlock("!")>>),
              stop_reason |-> PyStr("end_turn"),
              usage |-> PyDict([input_tokens |-> PyNum(3),
                                output_tokens |-> PyNum(5)])]),
      PyDict(EmptyDict),
      PyListOf(<<>>),
      None,
      PyDict([content |-> None]),
      PyDict([content |-> PyListOf(<<PyStr("Hi")>>)]),
      Undecodable }

Posted ==
    { PostRaises(Exc("ConnectError", text)) : text \in ExcTexts }
      \cup { PostResponse(s, body) : s \in Statuses \ {200}, body \in {Undecodable} }
      \cup { PostResponse(200, body) : body \in Bodies }

(***************************************************************************)
(* The endpoint: one action per handler step.                              *)
(***************************************************************************)
\* a handler that retries the POST while calls[r] <= config.max_retries
SettleWithRetry(r, response) ==
    IF response.status_code # 200 /\ calls[r] <= config.max_retries
    THEN /\ calls' = [calls EXCEPT ![r] = calls[r] + 1]
         /\ resp' = resp
         /\ pc' = pc
    ELSE /\ resp' = [resp EXCEPT ![r] = response]
         /\ pc' = [pc EXCEPT ![r] = "responded"]
         /\ calls' = calls

\* the POST has returned or raised: the handler answers, nothing is sent again
Settle(r, response) ==
    /\ resp' = [resp EXCEPT ![r] = response]
    /\ pc' = [pc EXCEPT ![r] = "responded"]
    /\ calls' = calls

\* a chat_completion that sends the streamed POST before it returns
ChatCompletionsPostingFirst(r) ==
    /\ pc[r] = "received"
    /\ zai_request' =
            [zai_request EXCEPT ![r] = transform_request(req[r], model[r], config)]
    /\ IF Truthy(req[r].stream)
       THEN /\ resp' = [resp EXCEPT ![r] = StreamingResponse]
            /\ pc' = [pc EXCEPT ![r] = "created"]
            /\ calls' = [calls EXCEPT ![r] = calls[r] + 1]
       ELSE /\ resp' = resp
            /\ pc' = [pc EXCEPT ![r] = "awaiting"]
            /\ calls' = [calls EXCEPT ![r] = calls[r] + 1]
    /\ UNCHANGED <<lines, model, pos, out, err, status, chunk_id, config, req,
                   posted, http_exception_str, conn, app>>

\* the endpoint up to its first suspension: the request is transformed; for
\* stream=True the generator is handed to StreamingResponse unstarted, else
\* the POST is sent
ChatCompletions(r) ==
    /\ pc[r] = "received"
    /\ zai_request' =
            [zai_request EXCEPT ![r] = transform_request(req[r], model[r], config)]
    /\ IF Truthy(req[r].stream)
       THEN /\ resp' = [resp EXCEPT ![r] = StreamingResponse]
            /\ pc' = [pc EXCEPT ![r] = "created"]
            /\ calls' = calls
       ELSE /\ resp' = resp
            /\ pc' = [pc EXCEPT ![r] = "awaiting"]
            /\ calls' = [calls EXCEPT ![r] = calls[r] + 1]
    /\ UNCHANGED <<lines, model, pos, out, err, status, chunk_id, config, req,
                   posted, http_exception_str, conn, app>>

\* the rest of the endpoint for stream=False, from the outcome of the POST
UnaryReply(r) ==
    /\ pc[r] = "awaiting"
    /\ \E hex \in Hex8 :
        /\ status' = [status EXCEPT ![r] = posted[r].status_code]
        /\ err' = [err EXCEPT ![r] = RaisedInside(posted[r], model[r], hex)]
        /\ Settle(r, chat_completions(posted[r], model[r], hex, http_exception_str))
    /\ UNCHANGED <<lines, model, pos, out, chunk_id, config, req, zai_request,
                   posted, http_exception_str, conn, app>>

MaxEndpointLines == 1

EndpointLineSet ==
    { DataLine(TextDelta("Hi")), DataLine(MsgDelta(PyStr("end_turn"))),
      <<TData, TDone>> }

InitEndpoint ==
    /\ \E ls \in SeqsUpTo(EndpointLineSet, MaxEndpointLines) :
            lines = [r \in Runs |-> ls]
    /\ model = [r \in Runs |-> "glm-4.5"]
    /\ pc = [r \in Runs |-> "received"]
    /\ pos = [r \in Runs |-> 0]
    /\ out = [r \in Runs |-> <<>>]
    /\ err = [r \in Runs |-> "none"]
    /\ status = [r \in Runs |-> 0]
    /\ chunk_id = [r \in Runs |-> ""]
    /\ conn = [r \in Runs |-> "none"]
    /\ app = Serving
    /\ \E max_retries \in {0, DefaultMaxRetries} :
            config = [DefaultConfig EXCEPT !.max_retries = max_retries]
    /\ req \in [Runs -> {DefaultRequest(TRUE), DefaultRequest(FALSE)}]
    /\ zai_request = [r \in Runs |-> EmptyDict]
    /\ calls = [r \in Runs |-> 0]
    /\ resp = [r \in Runs |-> NoResponse]
    /\ posted \in [Runs -> Posted \cup {NotPosted}]
    /\ \A r \in Runs : posted[r] = NotPosted <=> Truthy(req[r].stream)
    /\ http_exception_str \in HTTPExceptionStrs

NextEndpoint ==
    \E r \in Runs :
        \/ ChatCompletions(r)
        \/ UnaryReply(r)
        \/ Start(r)
        \/ NextLine(r)
        \/ EndOfLines(r)
        \/ ReadFails(r)

SpecEndpoint == InitEndpoint /\ [][NextEndpoint]_vars

(***************************************************************************)
(* Vocabulary of the properties.                                           *)
(***************************************************************************)
\* stream r reads its next line in this step
Reads(r) == pc[r] = "streaming" /\ pos[r] < Len(lines[r]) /\ pos'[r] = pos[r] + 1

\* the line stream r reads next
Line(r) == lines[r][pos[r] + 1]

\* the JSON value a line carries, when the line is one the loop parses
Parsed(l) ==
    LET b == IF l # <<>> /\ l[1] = TData THEN Tail(l) ELSE l IN
    IF Strip(l) = <<>> \/ Strip(b) = <<TDone>> \/ (b # <<>> /\ b[1] = TEvent)
    THEN [ok |-> FALSE, v |-> None]
    ELSE JsonLoads(b)

\* the line carries a JSON object whose 'type' is kind
IsEvent(l, kind) ==
    /\ Parsed(l).ok
    /\ Parsed(l).v.t = "dict"
    /\ "type" \in DOMAIN Parsed(l).v.f
    /\ Parsed(l).v.f.type = PyStr(kind)

Last(s) == s[Len(s)]

EmitsNothing(r) == out'[r] = out[r]
EmitsOne(r, delta, finish_reason) ==
    out'[r] = Append(out[r], ChunkFrame(chunk_id[r], model[r], delta, finish_reason))

(***************************************************************************)
(* C1. When the translator reads a line that, after removing an optional   *)
(* "data: " prefix and surrounding whitespace, is the literal [DONE], it   *)
(* emits the frame "data: [DONE]" for it and ends; once that frame is out, *)
(* no further line is read and no further frame is emitted.                *)
(***************************************************************************)
C1_IsDone(l) ==
    LET b == IF l # <<>> /\ l[1] = TData THEN Tail(l) ELSE l IN
    Strip(b) = <<TDone>>

C1_DoneTerminates ==
    [][\A r \in Runs :
        /\ (Reads(r) /\ C1_IsDone(Line(r))) =>
                (out'[r] = Append(out[r], DoneFrame) /\ pc'[r] = "ended")
        /\ (out[r] # <<>> /\ Last(out[r]) = DoneFrame) =>
                (out'[r] = out[r] /\ pos'[r] = pos[r] /\ pc'[r] = pc[r])
      ]_vars

\* [DONE], padded with whitespace, was read at the first position and a
\* later line was left unread
C1_Witness ==
    /\ Len(lines[1]) = 2
    /\ lines[1][1] = <<TData, TWs, TDone, TWs>>
    /\ pos[1] = 1
    /\ out[1] = <<DoneFrame>>
    /\ pc[1] = "ended"

(***************************************************************************)
(* C2. No backend line aborts the translation: reading a line that is not  *)
(* the expected JSON object payload (text that is no JSON, JSON that is    *)
(* not an object, an object whose 'delta' is not an object) raises no      *)
(* error, emits nothing and the stream goes on with the next line.         *)
(***************************************************************************)
C2_NotExpectedPayload(l) ==
    /\ Strip(l) # <<>>
    /\ ~C1_IsDone(l)
    /\ ~(l # <<>> /\ l[1] = TEvent)
    /\ ~(l # <<>> /\ l[1] = TData /\ Len(l) > 1 /\ l[2] = TEvent)
    /\ \/ ~Parsed(l).ok
       \/ Parsed(l).v.t # "dict"
       \/ /\ "delta" \in DOMAIN Parsed(l).v.f
          /\ Parsed(l).v.f.delta.t # "dict"

C2_NoLineAborts ==
    [][\A r \in Runs :
        (Reads(r) /\ C2_NotExpectedPayload(Line(r))) =>
            (pc'[r] = "streaming" /\ err'[r] = "none" /\ EmitsNothing(r))
      ]_vars

(***************************************************************************)
(* C3. Skipping an undecodable line is transparent: a sequence of event    *)
(* lines with one line that fails JSON decoding inserted at any position   *)
(* yields the same frames (deltas, finish reasons, order) as the sequence  *)
(* without it.                                                             *)
(***************************************************************************)
Shape(frames) ==
    [i \in 1..Len(frames) |->
        <<frames[i].kind, frames[i].delta, frames[i].finish_reason>>]

C3_SkipIsTransparent ==
    (Completed(1) /\ Completed(2)) =>
        /\ Shape(out[1]) = Shape(out[2])
        /\ pc[1] = pc[2]
        /\ err[1] = err[2]

\* the undecodable line stood between two lines that each produced a chunk
C3_Witness ==
    /\ pc[1] = "ended" /\ pc[2] = "ended"
    /\ Len(lines[1]) = 3
    /\ lines[1][2] \in UndecodableLines
    /\ Len(out[1]) = 2 /\ Len(out[2]) = 2
    /\ out[1][2].delta = [content |-> PyStr("Hi")]

(***************************************************************************)
(* C4. A content_block_stop event produces no outgoing chunk.              *)
(***************************************************************************)
C4_ContentBlockStopSilent ==
    [][\A r \in Runs :
        (Reads(r) /\ IsEvent(Line(r), "content_block_stop")) => EmitsNothing(r)
      ]_vars

(***************************************************************************)
(* C5. An event whose kind is none of content_block_start,                 *)
(* content_block_delta, content_block_stop, message_delta, message_stop    *)
(* (message_start, ping, an object with no 'type') produces no chunk.      *)
(***************************************************************************)
KnownKinds ==
    { PyStr("content_block_start"), PyStr("content_block_delta"),
      PyStr("content_block_stop"), PyStr("message_delta"), PyStr("message_stop") }

C5_UnknownKind(l) ==
    /\ Parsed(l).ok
    /\ Parsed(l).v.t = "dict"
    /\ \/ "type" \notin DOMAIN Parsed(l).v.f
       \/ Parsed(l).v.f.type \notin KnownKinds

C5_UnknownKindSilent ==
    [][\A r \in Runs :
        (Reads(r) /\ C5_UnknownKind(Line(r))) => EmitsNothing(r)
      ]_vars

(***************************************************************************)
(* C6. message_stop terminates the translation: it emits no chunk and no   *)
(* line read after a message_stop produces a frame.                        *)
(***************************************************************************)
C6_MessageStopTerminates ==
    [][\A r \in Runs :
        Reads(r) =>
            /\ IsEvent(Line(r), "message_stop") => EmitsNothing(r)
            /\ (\E i \in 1..pos[r] : IsEvent(lines[r][i], "message_stop"))
                    => (EmitsNothing(r) \/ out'[r] = Append(out[r], DoneFrame))
      ]_vars

(***************************************************************************)
(* C7. For a well-formed stream content_block_start, k text deltas         *)
(* t_1..t_k, message_delta(stop_reason = r), message_stop, the translator  *)
(* emits exactly k+2 chunks in input order, the concatenation of their     *)
(* delta.content is t_1..t_k, and only the last chunk has a finish_reason, *)
(* the one r maps to.                                                      *)
(***************************************************************************)
RECURSIVE ConcatAll(_)
ConcatAll(strs) == IF strs = <<>> THEN "" ELSE Head(strs) \o ConcatAll(Tail(strs))

ContentOf(frame) ==
    IF "content" \in DOMAIN frame.delta THEN frame.delta.content.s ELSE ""

IsDeltaLine(l) == IsEvent(l, "content_block_delta")
IsMessageDeltaLine(l) == IsEvent(l, "message_delta")

\* t_1..t_k of the input of stream r
InputTexts(r) ==
    LET ds == SelectSeq(lines[r], IsDeltaLine) IN
    [i \in 1..Len(ds) |-> Parsed(ds[i]).v.f.delta.f.text.s]

\* the stop reason r of the input of stream r
InputStopReason(r) ==
    Parsed(SelectSeq(lines[r], IsMessageDeltaLine)[1]).v.f.delta.f.stop_reason.s

C7_Expected(stop_reason) == IF stop_reason = "max_tokens" THEN "length" ELSE "stop"

C7_WellFormedStream ==
    (pc[1] = "ended" /\ pos[1] = Len(lines[1])) =>
        LET ts == InputTexts(1)
            k == Len(ts)
            o == out[1]
        IN  /\ Len(o) = k + 2
            /\ \A i \in 1..Len(o) : o[i].kind = "chunk"
            /\ o[1].delta = [role |-> PyStr("assistant"), content |-> PyStr("")]
            /\ \A i \in 1..k : o[i + 1].delta = [content |-> PyStr(ts[i])]
            /\ ConcatAll([i \in 1..Len(o) |-> ContentOf(o[i])]) = ConcatAll(ts)
            /\ \A i \in 1..(k + 1) : o[i].finish_reason = None
            /\ o[k + 2].delta = EmptyDict
            /\ o[k + 2].finish_reason = PyStr(C7_Expected(InputStopReason(1)))

\* the stream Hi, ! framed by event and blank lines, cut off by max_tokens
C7_Witness ==
    /\ pc[1] = "ended"
    /\ Len(lines[1]) = 15
    /\ InputTexts(1) = <<"Hi", "!">>
    /\ Len(out[1]) = 4
    /\ ConcatAll([i \in 1..4 |-> ContentOf(out[1][i])]) = "Hi!"
    /\ out[1][4].finish_reason = PyStr("length")

(***************************************************************************)
(* C8. Per-event output: content_block_start emits delta {role:            *)
(* "assistant", content: ""}; content_block_delta with inner type          *)
(* text_delta emits {content: text}; content_block_delta with another      *)
(* inner type emits an empty delta; each with finish_reason null.          *)
(* message_delta carrying a stop reason emits an empty delta with the      *)
(* mapped finish_reason.                                                   *)
(***************************************************************************)
HasDictDelta(l) ==
    /\ "delta" \in DOMAIN Parsed(l).v.f
    /\ Parsed(l).v.f.delta.t = "dict"

InnerDelta(l) == Parsed(l).v.f.delta.f

C8_Expected(stop_reason) == IF stop_reason = "max_tokens" THEN "length" ELSE "stop"

C8_PerEventOutput ==
    [][\A r \in Runs :
        Reads(r) =>
          LET l == Line(r) IN
            /\ IsEvent(l, "content_block_start") =>
                EmitsOne(r, [role |-> PyStr("assistant"), content |-> PyStr("")], None)
            /\ ( /\ IsEvent(l, "content_block_delta") /\ HasDictDelta(l)
                 /\ "type" \in DOMAIN InnerDelta(l)
                 /\ InnerDelta(l).type = PyStr("text_delta")
                 /\ "text" \in DOMAIN InnerDelta(l) ) =>
                EmitsOne(r, [content |-> InnerDelta(l).text], None)
            /\ ( /\ IsEvent(l, "content_block_delta") /\ HasDictDelta(l)
                 /\ \/ "type" \notin DOMAIN InnerDelta(l)
                    \/ InnerDelta(l).type # PyStr("text_delta") ) =>
                EmitsOne(r, EmptyDict, None)
            /\ ( /\ IsEvent(l, "message_delta") /\ HasDictDelta(l)
                 /\ "stop_reason" \in DOMAIN InnerDelta(l)
                 /\ InnerDelta(l).stop_reason.t = "str"
                 /\ InnerDelta(l).stop_reason.s # "" ) =>
                EmitsOne(r, EmptyDict,
                         PyStr(C8_Expected(InnerDelta(l).stop_reason.s)))
      ]_vars

\* a delta of another inner type, then a message_delta with max_tokens
C8_Witness ==
    /\ Len(lines[1]) = 2
    /\ IsEvent(lines[1][1], "content_block_delta")
    /\ HasDictDelta(lines[1][1])
    /\ Get(Parsed(lines[1][1]).v.f.delta, "type", None) = PyStr("input_json_delta")
    /\ out[1] = << ChunkFrame(chunk_id[1], model[1], EmptyDict, None),
                   ChunkFrame(chunk_id[1], model[1], EmptyDict, PyStr("length")) >>

(***************************************************************************)
(* C9. Every translated stream that ends without an error ends with the    *)
(* frame "data: [DONE]".                                                   *)
(***************************************************************************)
C9_EndsWithDone ==
    \A r \in Runs :
        pc[r] = "ended" => (out[r] # <<>> /\ Last(out[r]) = DoneFrame)

(***************************************************************************)
(* C10. When a failure occurs (non-2xx status, connection error, an        *)
(* exception while translating), the frames already emitted stay emitted,  *)
(* the stream ends there and no "data: [DONE]" frame is emitted.           *)
(***************************************************************************)
C10_FailureEndsStream ==
    [][\A r \in Runs :
        /\ (pc[r] # "failed" /\ pc'[r] = "failed") => out'[r] = out[r]
        /\ pc[r] = "failed" =>
                (pc'[r] = "failed" /\ out'[r] = out[r] /\ pos'[r] = pos[r])
        /\ pc'[r] = "failed" =>
                \A i \in 1..Len(out'[r]) : out'[r][i] # DoneFrame
      ]_vars

\* a chunk was emitted, then translating the next line raised
C10_Witness ==
    /\ pc[1] = "failed"
    /\ err[1] = "AttributeError"
    /\ pos[1] = 2
    /\ Len(out[1]) = 1
    /\ out[1][1].kind = "chunk"

(***************************************************************************)
(* Vocabulary of the endpoint properties.                                  *)
(***************************************************************************)
\* request r is a non-streaming completion that the endpoint has answered
Answered(r) == ~Truthy(req[r].stream) /\ pc[r] = "responded"

\* the backend rejected the call of request r with a non-2xx status
Rejected(r) == Answered(r) /\ status[r] # 0 /\ status[r] \notin 200..299

\* the call of request r failed, and not by a backend rejection
FailedInternally(r) == Answered(r) /\ err[r] \notin {"none", "HTTPStatusError"}

ErrorType(response) ==
    IF "type" \in DOMAIN response.error THEN response.error["type"] ELSE "none"

ErrorCode(response) ==
    IF "code" \in DOMAIN response.error THEN response.error["code"] ELSE "none"

ErrorMessage(response) ==
    IF "message" \in DOMAIN response.error THEN response.error["message"] ELSE "none"

(***************************************************************************)
(* C11: when the backend rejects a non-streaming completion with a non-2xx *)
(* status s, the client receives status s and an error body of type        *)
(* 'api_error' whose code carries s, and 'internal_error' is only used for *)
(* failures that are not a backend rejection.  The code does not do this:  *)
(* chat_completion turns the HTTPStatusError into HTTPException(500).      *)
(***************************************************************************)
C11_RejectionIsApiError ==
    \A r \in Runs :
        Rejected(r) =>
            /\ resp[r].status_code = status[r]
            /\ ErrorType(resp[r]) = "api_error"
            /\ ErrorCode(resp[r]) = ToString(status[r])

(***************************************************************************)
(* C12: a non-streaming completion that fails otherwise than by a backend  *)
(* rejection (the POST raises, the body cannot be decoded, the translation *)
(* of the body raises) is answered with HTTP 500 and an error body of type *)
(* 'internal_error'; the exception never leaves the endpoint unanswered.   *)
(***************************************************************************)
C12_InternalFailureIs500 ==
    \A r \in Runs :
        FailedInternally(r) =>
            /\ resp[r].kind = "json"
            /\ resp[r].status_code = 500
            /\ ErrorType(resp[r]) = "internal_error"

\* one request whose POST raised and one whose body could not be translated
C12_Witness ==
    /\ FailedInternally(1) /\ err[1] = "ConnectError"
    /\ FailedInternally(2) /\ err[2] \in {"AttributeError", "TypeError"}
    /\ resp[1].status_code = 500 /\ resp[2].status_code = 500

(***************************************************************************)
(* C13: the body of an internal_error response does not depend on the      *)
(* internal exception: two internal failures of the same kind that differ  *)
(* only in their exception text are answered with the same message.  The   *)
(* code does not do this: the message is str(e), the text of the exception.*)
(***************************************************************************)
C13_GenericMessage ==
    (FailedInternally(1) /\ FailedInternally(2) /\ err[1] = err[2])
        => ErrorMessage(resp[1]) = ErrorMessage(resp[2])

(***************************************************************************)
(* C14: nothing is retried: one chat completion request, streaming or not, *)
(* issues at most one outbound backend call, whatever the outcome of the   *)
(* call and whatever the value of Config.max_retries.                      *)
(***************************************************************************)
C14_AtMostOneCall == \A r \in Runs : calls[r] <= 1

\* with max_retries = 3, a rejected non-streaming call and a rejected
\* streaming call have both ended after one call each
C14_Witness ==
    /\ config.max_retries = DefaultMaxRetries
    /\ \E r \in Runs : Rejected(r) /\ calls[r] = 1
    /\ \E r \in Runs :
          Truthy(req[r].stream) /\ pc[r] = "failed" /\ err[r] = "HTTPStatusError"
            /\ calls[r] = 1

(***************************************************************************)
(* Requests for transform_request: Init draws the request from bounded     *)
(* sets, the endpoint transforms it.                                       *)
(***************************************************************************)
MaxMessages == 3

ImagePart == PyDict([type |-> PyStr("image_url"), url |-> PyStr("data:image/png")])
TextPart == PyDict([type |-> PyStr("text"), text |-> PyStr("look")])

SystemContents ==
    { PyStr(""), PyStr("Be brief"), PyListOf(<<>>), PyListOf(<<TextPart>>) }

SourceMessages ==
    { Message("system", content, None) : content \in SystemContents }
      \cup { Message("user", PyStr("Hello"), None),
             Message("user", PyListOf(<<TextPart, ImagePart>>), None),
             Message("assistant", PyStr("Hi"), None) }

MaxTokensValues == { None, PyNum(0), PyNum(1000) }

StopValues ==
    { None, PyStr(""), PyStr("END"), PyListOf(<<>>),
      PyListOf(<<PyStr("END"), PyStr("STOP")>>) }

\* temperature and top_p: the defaults, both null, both 0
SamplingValues ==
    { <<PyFloat(7), PyFloat(10)>>, <<None, None>>, <<PyFloat(0), PyFloat(0)>> }

InitTransform ==
    /\ lines = [r \in Runs |-> <<>>]
    /\ model = [r \in Runs |-> "glm-4.5"]
    /\ pc = <<"received", "idle">>
    /\ pos = [r \in Runs |-> 0]
    /\ out = [r \in Runs |-> <<>>]
    /\ err = [r \in Runs |-> "none"]
    /\ status = [r \in Runs |-> 0]
    /\ chunk_id = [r \in Runs |-> ""]
    /\ conn = [r \in Runs |-> "none"]
    /\ app = Serving
    /\ config = DefaultConfig
    /\ \E messages \in SeqsUpTo(SourceMessages, MaxMessages) \ {<<>>},
          max_tokens \in MaxTokensValues, stop \in StopValues,
          sampling \in SamplingValues, stream \in BOOLEAN :
            req = << Request(messages, max_tokens, stop, sampling[1], sampling[2],
                             PyBool(stream)),
                     DefaultRequest(FALSE) >>
    /\ zai_request = [r \in Runs |-> EmptyDict]
    /\ calls = [r \in Runs |-> 0]
    /\ resp = [r \in Runs |-> NoResponse]
    /\ posted = [r \in Runs |-> NotPosted]
    /\ http_exception_str = "status_detail"

NextTransform == ChatCompletions(1)

SpecTransform == InitTransform /\ [][NextTransform]_vars

\* transform_request has built the backend request of request 1
Transformed == pc[1] \in {"created", "awaiting"}

IsSystem(msg) == msg.role = "system"

\* the source messages of request 1 and its backend request
Src == req[1].messages
Zai == zai_request[1]

\* the positions of the system messages of the source request
SystemPositions == { i \in 1..Len(Src) : IsSystem(Src[i]) }

NoSystemInBackendMessages ==
    \A i \in 1..Len(Zai.messages) : Zai.messages[i].role # "system"

(***************************************************************************)
(* C15: for a source request made of one system message followed by any    *)
(* number of non-system messages, for every content of the system message  *)
(* (empty text and content-part lists included), the backend request has   *)
(* that content in 'system' and no message of role 'system' in 'messages'. *)
(* The code does not do this: `if system_content:` drops empty content.    *)
(***************************************************************************)
C15_SystemFieldCarriesContent ==
    (Transformed /\ SystemPositions = {1}) =>
        /\ "system" \in DOMAIN Zai
        /\ Zai["system"] = Src[1].content
        /\ NoSystemInBackendMessages

\* the position of the last system message of the source request
LastSystemPosition == CHOOSE i \in SystemPositions : \A j \in SystemPositions : j <= i

(***************************************************************************)
(* C16: when the source request has several system messages, at any        *)
(* positions, the backend 'system' field is the content of the last of     *)
(* them and no system message is left in the backend 'messages'.  The code *)
(* does not do this when the last system content is empty (see C15).       *)
(***************************************************************************)
C16_LastSystemWins ==
    (Transformed /\ Cardinality(SystemPositions) >= 2) =>
        /\ "system" \in DOMAIN Zai
        /\ Zai["system"] = Src[LastSystemPosition].content
        /\ NoSystemInBackendMessages

\* the source messages that are not system messages, in their order
NonSystem == SelectSeq(Src, LAMBDA msg : ~IsSystem(msg))

(***************************************************************************)
(* C17: the backend 'messages' sequence is exactly the subsequence of the  *)
(* non-system source messages: same length, same order, role and content   *)
(* of each message unchanged, content-part lists included.                 *)
(***************************************************************************)
C17_MessagesPassThrough ==
    Transformed =>
        /\ Len(Zai.messages) = Len(NonSystem)
        /\ \A i \in 1..Len(NonSystem) :
              /\ Zai.messages[i].role = NonSystem[i].role
              /\ Zai.messages[i].content = NonSystem[i].content

\* a system message between a multimodal user message and an assistant
\* message: both are copied, in their order, the part list as it was
C17_Witness ==
    /\ Transformed
    /\ Len(Src) = 3
    /\ Src[1] = Message("user", PyListOf(<<TextPart, ImagePart>>), None)
    /\ IsSystem(Src[2])
    /\ Src[3] = Message("assistant", PyStr("Hi"), None)
    /\ Len(Zai.messages) = 2
    /\ Zai.messages[1].content = PyListOf(<<TextPart, ImagePart>>)
    /\ Zai.messages[2].role = "assistant"

(***************************************************************************)
(* C18: the backend request always carries max_tokens, never null: it is   *)
(* the source max_tokens whenever that is non-null (for every integer, 0   *)
(* included) and the configured default exactly when the source value is   *)
(* null.  The code does not do this: `or` replaces 0 by the default.       *)
(***************************************************************************)
C18_MaxTokens ==
    Transformed =>
        /\ "max_tokens" \in DOMAIN Zai
        /\ Zai["max_tokens"] # None
        /\ req[1].max_tokens # None => Zai["max_tokens"] = req[1].max_tokens
        /\ req[1].max_tokens = None => Zai["max_tokens"] = PyNum(config.max_tokens)

(***************************************************************************)
(* C19: stop normalization: a source stop that is a bare string s (the     *)
(* empty string included) gives stop_sequences = [s]; a source stop that   *)
(* is a sequence (the empty one included) gives that sequence unchanged;   *)
(* stop_sequences is absent only when stop is null.  The code does not do  *)
(* this: `if request.stop:` drops the empty string and the empty sequence. *)
(***************************************************************************)
C19_StopSequences ==
    Transformed =>
        /\ req[1].stop = None <=> "stop_sequences" \notin DOMAIN Zai
        /\ req[1].stop.t = "str" =>
              /\ "stop_sequences" \in DOMAIN Zai
              /\ Zai["stop_sequences"] = PyListOf(<<req[1].stop>>)
        /\ req[1].stop.t = "list" =>
              /\ "stop_sequences" \in DOMAIN Zai
              /\ Zai["stop_sequences"] = req[1].stop

(***************************************************************************)
(* C20: the request returned by transform_request carries the normalized   *)
(* stop sequences under the key 'stop': a source stop list L gives         *)
(* transformed['stop'] = L, a source stop string s gives [s].  The code    *)
(* does not do this: it writes the key 'stop_sequences', never 'stop'.     *)
(***************************************************************************)
C20_StopKey ==
    (Transformed /\ Truthy(req[1].stop)) =>
        /\ "stop" \in DOMAIN Zai
        /\ Zai["stop"] = IF req[1].stop.t = "list" THEN req[1].stop
                         ELSE PyListOf(<<req[1].stop>>)

(***************************************************************************)
(* Requests that differ in their optional parameters only.                 *)
(***************************************************************************)
\* temperature: null, 0, the model default 0.7, 2.0
TemperatureValues == { None, PyFloat(0), PyFloat(7), PyFloat(20) }

\* top_p: null, 0, 0.5, the model default 1.0
TopPValues == { None, PyFloat(0), PyFloat(5), PyFloat(10) }

\* stream: Optional[bool]
StreamValues == { None, PyBool(FALSE), PyBool(TRUE) }

InitOptions ==
    /\ lines = [r \in Runs |-> <<>>]
    /\ model = [r \in Runs |-> "glm-4.5"]
    /\ pc = <<"received", "idle">>
    /\ pos = [r \in Runs |-> 0]
    /\ out = [r \in Runs |-> <<>>]
    /\ err = [r \in Runs |-> "none"]
    /\ status = [r \in Runs |-> 0]
    /\ chunk_id = [r \in Runs |-> ""]
    /\ conn = [r \in Runs |-> "none"]
    /\ app = Serving
    /\ config = DefaultConfig
    /\ \E temperature \in TemperatureValues, top_p \in TopPValues,
          stream \in StreamValues, max_tokens \in MaxTokensValues,
          stop \in StopValues :
            req = << Request(<<Message("user", PyStr("Hello"), None)>>,
                             max_tokens, stop, temperature, top_p, stream),
                     DefaultRequest(FALSE) >>
    /\ zai_request = [r \in Runs |-> EmptyDict]
    /\ calls = [r \in Runs |-> 0]
    /\ resp = [r \in Runs |-> NoResponse]
    /\ posted = [r \in Runs |-> NotPosted]
    /\ http_exception_str = "status_detail"

SpecOptions == InitOptions /\ [][NextTransform]_vars

\* optional source value `value` is copied to backend field `key`, or left out
CopiedIfPresent(key, value) ==
    /\ value = None <=> key \notin DOMAIN Zai
    /\ value # None => Zai[key] = value

(***************************************************************************)
(* C21: temperature and top_p, each on its own: the field is in the        *)
(* backend request if and only if the source value is non-null, and then   *)
(* carries that value, 0 included; a request built without temperature has *)
(* the model default 0.7, which is sent.  The stream flag is copied        *)
(* unchanged.                                                              *)
(***************************************************************************)
C21_SamplingCopiedIfPresent ==
    Transformed =>
        /\ CopiedIfPresent("temperature", req[1].temperature)
        /\ CopiedIfPresent("top_p", req[1].top_p)
        /\ Zai["stream"] = req[1].stream

\* temperature 0 is sent as 0 while the null top_p is left out, stream on
C21_Witness ==
    /\ Transformed
    /\ req[1].temperature = PyFloat(0) /\ req[1].top_p = None
    /\ req[1].stream = PyBool(TRUE)
    /\ Zai["temperature"] = PyFloat(0)
    /\ "top_p" \notin DOMAIN Zai
    /\ Zai["stream"] = PyBool(TRUE)

(***************************************************************************)
(* Backend replies to the non-streaming POST, for the translation of the   *)
(* response: Init draws the reply, the endpoint translates it.             *)
(***************************************************************************)
MaxBlocks == 3

\* a key that the backend body does not have
Absent == [t |-> "absent"]

KeyIfPresent(key, value) == IF value = Absent THEN EmptyDict ELSE (key :> value)

\* a backend body of the Anthropic Messages shape
Body(id, content, stop_reason, usage, backend_model) ==
    PyDict([type |-> PyStr("message"), role |-> PyStr("assistant")]
             @@ KeyIfPresent("id", id)
             @@ KeyIfPresent("content", content)
             @@ KeyIfPresent("stop_reason", stop_reason)
             @@ KeyIfPresent("usage", usage)
             @@ KeyIfPresent("model", backend_model))

\* content blocks: text blocks, blocks of other types (one of them with a
\* 'text' key of its own), a block without type, a text block without text
Blocks ==
    { TextBlock("a"), TextBlock("b"),
      PyDict([type |-> PyStr("image"), source |-> PyStr("iVBOR")]),
      PyDict([type |-> PyStr("thinking"), text |-> PyStr("hmm")]),
      PyDict([text |-> PyStr("x")]),
      PyDict([type |-> PyStr("text")]) }

Contents ==
    {Absent} \cup { PyListOf(blocks) : blocks \in SeqsUpTo(Blocks, MaxBlocks) }

ResponseStopReasons ==
    { Absent, None, PyStr(""), PyStr("end_turn"), PyStr("max_tokens"),
      PyStr("stop_sequence"), PyStr("tool_use") }

Usages ==
    { Absent, PyDict(EmptyDict),
      PyDict([input_tokens |-> PyNum(3), output_tokens |-> PyNum(5)]),
      PyDict([input_tokens |-> PyNum(7)]),
      PyDict([output_tokens |-> PyNum(2)]),
      PyDict([input_tokens |-> PyNum(0), output_tokens |-> PyNum(0),
              total_tokens |-> PyNum(99)]) }

BackendIds == { Absent, None, PyStr("msg_1") }

BackendModels == { Absent, PyStr("claude-3") }

\* the reply of the tests: a body that is shaped as a completion already
CompletionShapedBody ==
    PyDict([id |-> PyStr("chatcmpl-test123"),
            created |-> PyNum(1234567890),
            choices |-> PyListOf(<<
                PyDict([index |-> PyNum(0),
                        message |-> PyDict([role |-> PyStr("assistant"),
                                            content |-> PyStr("Hello!")]),
                        finish_reason |-> PyStr("stop")]) >>),
            usage |-> PyDict([prompt_tokens |-> PyNum(10),
                              completion_tokens |-> PyNum(5),
                              total_tokens |-> PyNum(15)])])

\* every content with the other keys fixed, every combination of the other
\* keys with two contents, and the completion-shaped body
ResponseBodies ==
    { Body(PyStr("msg_1"), content, PyStr("end_turn"),
           PyDict([input_tokens |-> PyNum(3), output_tokens |-> PyNum(5)]), Absent) :
        content \in Contents }
      \cup { Body(id, content, stop_reason, usage, backend_model) :
               id \in BackendIds, content \in {Absent, PyListOf(<<TextBlock("a")>>)},
               stop_reason \in ResponseStopReasons, usage \in Usages,
               backend_model \in BackendModels }
      \cup { CompletionShapedBody }

\* a request with a long prompt
LongRequest ==
    Request(<<Message("system", PyStr("Be brief"), None),
              Message("user", PyListOf(<<TextPart, ImagePart>>), None),
              Message("assistant", PyStr("Hi"), None)>>,
            PyNum(1000), None, PyFloat(7), PyFloat(10), PyBool(FALSE))

InitResponse ==
    /\ lines = [r \in Runs |-> <<>>]
    /\ \E m \in Models : model = [r \in Runs |-> m]
    /\ pc = <<"received", "idle">>
    /\ pos = [r \in Runs |-> 0]
    /\ out = [r \in Runs |-> <<>>]
    /\ err = [r \in Runs |-> "none"]
    /\ status = [r \in Runs |-> 0]
    /\ chunk_id = [r \in Runs |-> ""]
    /\ conn = [r \in Runs |-> "none"]
    /\ app = Serving
    /\ config = DefaultConfig
    /\ \E request \in {DefaultRequest(FALSE), LongRequest} :
            req = <<request, DefaultRequest(FALSE)>>
    /\ zai_request = [r \in Runs |-> EmptyDict]
    /\ calls = [r \in Runs |-> 0]
    /\ resp = [r \in Runs |-> NoResponse]
    /\ \E body \in ResponseBodies : posted = <<PostResponse(200, body), NotPosted>>
    /\ http_exception_str = "status_detail"

NextResponse == ChatCompletions(1) \/ UnaryReply(1)

SpecResponse == InitResponse /\ [][NextResponse]_vars

\* the body the backend gave to request 1, and what the client received
ZaiResponse == posted[1].json
Succeeded == Answered(1) /\ resp[1].status_code = 200
Result == resp[1].result

\* the content of the one message of the response
ResultContent == Result.choices[1].message.content

\* what a content block contributes to the message content
TextOf(block) ==
    IF "type" \in DOMAIN block.f /\ block.f["type"] = PyStr("text")
    THEN IF "text" \in DOMAIN block.f THEN block.f["text"].s ELSE ""
    ELSE ""

RECURSIVE ConcatInOrder(_)
ConcatInOrder(blocks) ==
    IF blocks = <<>> THEN "" ELSE TextOf(Head(blocks)) \o ConcatInOrder(Tail(blocks))

\* the content blocks of the backend body; none when the key is missing
BlocksOf(body) ==
    IF "content" \in DOMAIN body.f THEN body.f["content"].items ELSE <<>>

StopReasonStrings ==
    { PyStr("end_turn"), PyStr("max_tokens"), PyStr("stop_sequence"),
      PyStr("tool_use"), PyStr("refusal"), PyStr("") }

InitBothPaths ==
    /\ \E v \in StopReasonStrings :
        /\ lines = << <<>>, <<DataLine(MsgDelta(v))>> >>
        /\ posted = << PostResponse(200, Body(PyStr("msg_1"),
                                              PyListOf(<<TextBlock("a")>>), v,
                                              Absent, Absent)),
                       NotPosted >>
    /\ \E m \in Models : model = [r \in Runs |-> m]
    /\ pc = [r \in Runs |-> "received"]
    /\ pos = [r \in Runs |-> 0]
    /\ out = [r \in Runs |-> <<>>]
    /\ err = [r \in Runs |-> "none"]
    /\ status = [r \in Runs |-> 0]
    /\ chunk_id = [r \in Runs |-> ""]
    /\ conn = [r \in Runs |-> "none"]
    /\ app = Serving
    /\ config = DefaultConfig
    /\ req = <<DefaultRequest(FALSE), DefaultRequest(TRUE)>>
    /\ zai_request = [r \in Runs |-> EmptyDict]
    /\ calls = [r \in Runs |-> 0]
    /\ resp = [r \in Runs |-> NoResponse]
    /\ http_exception_str = "status_detail"

SpecBothPaths == InitBothPaths /\ [][NextEndpoint]_vars

\* the stop reason both backends report, and the finish reasons given for it
BothStopReason == ZaiResponse.f["stop_reason"]
UnaryFinishReason == PyStr(Result.choices[1].finish_reason)
StreamFinishReason == out[2][1].finish_reason

\* the table of the stop reasons
FinishReasonTable(v) == IF v = PyStr("max_tokens") THEN PyStr("length") ELSE PyStr("stop")

(***************************************************************************)
(* C23: the stop-reason mapping is the same table on both paths:           *)
(* end_turn -> stop, max_tokens -> length, stop_sequence -> stop and every *)
(* other value, the empty string included, -> stop; the finish_reason of   *)
(* the non-stream response for stop_reason v equals the finish_reason of   *)
(* the stream chunk for a message_delta carrying v.  The code does not do  *)
(* this: the stream path gives null for the empty string.                  *)
(***************************************************************************)
C23_SameTableOnBothPaths ==
    (Succeeded /\ pc[2] = "ended" /\ Len(out[2]) = 1) =>
        /\ UnaryFinishReason = FinishReasonTable(BothStopReason)
        /\ StreamFinishReason = FinishReasonTable(BothStopReason)
        /\ UnaryFinishReason = StreamFinishReason

\* the usage the backend reported: an empty object when the key is missing
BackendUsage == Get(ZaiResponse, "usage", PyDict(EmptyDict))

\* a token count of the backend usage, 0 when it is missing
Reported(key) ==
    IF key \in DOMAIN BackendUsage.f THEN BackendUsage.f[key].n ELSE 0

C25_ResponseId ==
    Succeeded =>
        IF "id" \in DOMAIN ZaiResponse.f /\ ZaiResponse.f["id"] # None
        THEN Result.id = "chatcmpl-" \o ZaiResponse.f["id"].s
        ELSE Result.id \in { "chatcmpl-" \o hex : hex \in Hex8 }

(***************************************************************************)
(* C26: for a backend reply that is shaped as a completion already (id     *)
(* 'chatcmpl-test123', choices[0].message.content, usage.total_tokens) the *)
(* endpoint returns HTTP 200 with the reply's id unchanged, the content of *)
(* the reply's assistant message and the total the backend reported.  The  *)
(* code does not do this: it reads the reply as an Anthropic message.      *)
(***************************************************************************)
C26_CompletionShapedReply ==
    (Answered(1) /\ ZaiResponse = CompletionShapedBody) =>
        /\ resp[1].status_code = 200
        /\ Result.id = "chatcmpl-test123"
        /\ ResultContent = "Hello!"
        /\ Result.usage.total_tokens = 15

(***************************************************************************)
(* C27: every successful non-stream response has exactly one choice, at    *)
(* index 0, whose message has role 'assistant', and its model is the model *)
(* named in the source request, not one the backend reported.              *)
(***************************************************************************)
C27_OneAssistantChoice ==
    Succeeded =>
        /\ Len(Result.choices) = 1
        /\ Result.choices[1].index = 0
        /\ Result.choices[1].message.role = "assistant"
        /\ Result.model = model[1]

\* the backend names claude-3 and sends no content: one empty assistant
\* choice, under the model of the request
C27_Witness ==
    /\ Succeeded
    /\ Get(ZaiResponse, "model", None) = PyStr("claude-3")
    /\ "content" \notin DOMAIN ZaiResponse.f
    /\ model[1] = "glm-4.5v"
    /\ Result.model = "glm-4.5v"
    /\ Len(Result.choices) = 1

(***************************************************************************)
(* The validation boundary: FastAPI parses the JSON body of the POST into  *)
(* a ChatCompletionRequest before the endpoint function runs, or answers   *)
(* 422.                                                                    *)
(***************************************************************************)
Roles == {"system", "user", "assistant"}

\* a JSON value that validates as models.Message
ValidMessage(item) ==
    /\ IsDict(item)
    /\ "role" \in DOMAIN item.f /\ item.f["role"].t = "str"
    /\ item.f["role"].s \in Roles
    /\ "content" \in DOMAIN item.f /\ item.f["content"].t \in {"str", "list"}

\* a JSON body that validates as models.ChatCompletionRequest
ValidRequest(body) ==
    /\ IsDict(body)
    /\ "model" \in DOMAIN body.f /\ body.f["model"].t = "str"
    /\ "messages" \in DOMAIN body.f /\ body.f["messages"].t = "list"
    /\ \A i \in 1..body.f["messages"].len : ValidMessage(body.f["messages"].items[i])
    /\ Get(body, "stream", None).t \in {"null", "bool"}

\* the ChatCompletionRequest of a valid body: missing fields get the defaults
ParseRequest(body) ==
    Request([i \in 1..body.f["messages"].len |->
                LET item == body.f["messages"].items[i] IN
                Message(item.f["role"].s, item.f["content"], Get(item, "name", None))],
            Get(body, "max_tokens", None), Get(body, "stop", None),
            Get(body, "temperature", PyFloat(7)), Get(body, "top_p", PyFloat(10)),
            Get(body, "stream", PyBool(FALSE)))

\* RequestValidationError: 422 with the list of validation errors
UnprocessableEntity == JSONResponse(422, EmptyDict)

\* the body of request r is parsed: the endpoint function gets the request,
\* or the client gets 422 and the endpoint function is not called
Validate(r) ==
    /\ pc[r] = "arrived"
    /\ IF ValidRequest(req[r])
       THEN /\ req' = [req EXCEPT ![r] = ParseRequest(req[r])]
            /\ pc' = [pc EXCEPT ![r] = "received"]
            /\ resp' = resp
       ELSE /\ req' = req
            /\ pc' = [pc EXCEPT ![r] = "responded"]
            /\ resp' = [resp EXCEPT ![r] = UnprocessableEntity]
    /\ UNCHANGED <<lines, model, pos, out, err, status, chunk_id, config,
                   zai_request, calls, posted, http_exception_str, conn, app>>

MaxRawMessages == 2

RawMessages ==
    { PyDict([role |-> PyStr("user"), content |-> PyStr("Hello")]),
      PyDict([role |-> PyStr("system"), content |-> PyStr("Be brief")]),
      PyDict([role |-> PyStr("invalid_role"), content |-> PyStr("Hello")]) }

\* JSON bodies: with and without 'messages', with and without 'stream'
RawBodies ==
    { PyDict([model |-> PyStr("glm-4.5")]
               @@ KeyIfPresent("messages", messages)
               @@ KeyIfPresent("stream", stream)) :
        messages \in {Absent} \cup
                     { PyListOf(items) : items \in SeqsUpTo(RawMessages, MaxRawMessages) },
        stream \in {Absent, PyBool(FALSE), PyBool(TRUE)} }

InitValidation ==
    /\ lines = << <<DataLine(TextDelta("Hi"))>>, <<>> >>
    /\ model = [r \in Runs |-> "glm-4.5"]
    /\ pc = <<"arrived", "idle">>
    /\ pos = [r \in Runs |-> 0]
    /\ out = [r \in Runs |-> <<>>]
    /\ err = [r \in Runs |-> "none"]
    /\ status = [r \in Runs |-> 0]
    /\ chunk_id = [r \in Runs |-> ""]
    /\ conn = [r \in Runs |-> "none"]
    /\ app = Serving
    /\ config = DefaultConfig
    /\ \E body \in RawBodies : req = <<body, DefaultRequest(FALSE)>>
    /\ zai_request = [r \in Runs |-> EmptyDict]
    /\ calls = [r \in Runs |-> 0]
    /\ resp = [r \in Runs |-> NoResponse]
    /\ posted = << PostResponse(200, Body(PyStr("msg_1"),
                                          PyListOf(<<TextBlock("a")>>),
                                          PyStr("end_turn"), Absent, Absent)),
                   NotPosted >>
    /\ http_exception_str = "status_detail"

NextValidation ==
    \/ Validate(1)
    \/ ChatCompletions(1)
    \/ UnaryReply(1)
    \/ Start(1)
    \/ NextLine(1)
    \/ EndOfLines(1)
    \/ ReadFails(1)

SpecValidation == InitValidation /\ [][NextValidation]_vars

\* req[1] is still the JSON body (it was not parsed, or not yet)
Unparsed == "t" \in DOMAIN req[1]

\* the messages sequence of request 1 is empty
EmptyMessages ==
    IF Unparsed
    THEN "messages" \in DOMAIN req[1].f /\ req[1].f["messages"] = PyListOf(<<>>)
    ELSE req[1].messages = <<>>

(***************************************************************************)
(* C28: a request whose messages sequence is empty is rejected at the      *)
(* validation boundary with HTTP 422, like a request without messages or   *)
(* with an invalid role; the translator and the backend are never invoked  *)
(* with an empty message sequence.  The code does not do this: the field   *)
(* is List[Message] without a minimum length.                              *)
(***************************************************************************)
C28_EmptyMessagesRejected ==
    (EmptyMessages /\ pc[1] # "arrived") =>
        /\ resp[1].status_code = 422
        /\ zai_request[1] = EmptyDict
        /\ calls[1] = 0

(***************************************************************************)
(* C29: all chunks of one translated stream carry the same id, fixed at    *)
(* the start of the stream ('chatcmpl-' and 8 hexadecimal characters), the *)
(* model of the source request and one choice, at index 0, for every       *)
(* backend event sequence.                                                 *)
(***************************************************************************)
C29_StableChunkIdentity ==
    \A r \in Runs :
        \A i \in 1..Len(out[r]) :
            out[r][i].kind = "chunk" =>
                /\ out[r][i].id = chunk_id[r]
                /\ out[r][i].id \in { "chatcmpl-" \o hex : hex \in Hex8 }
                /\ out[r][i].model = model[r]
                /\ out[r][i].index = 0

\* a text chunk and a finishing chunk of one stream, under one id
C29_Witness ==
    /\ pc[1] = "ended"
    /\ Len(out[1]) = 2
    /\ out[1][1].kind = "chunk" /\ out[1][1].finish_reason = None
    /\ out[1][2].kind = "chunk" /\ out[1][2].finish_reason = PyStr("stop")
    /\ out[1][1].id = out[1][2].id

\* translating line l of stream r produces a frame
Produces(l, r) == ProcessLine(l, chunk_id[r], model[r]).act \in {"yield", "break"}

\* the frames produced from the lines stream r has read, less the frames the
\* consumer has received: the frames the translator holds back
Held(r) ==
    Cardinality({ i \in 1..pos[r] : Produces(lines[r][i], r) }) - Len(out[r])

(***************************************************************************)
(* C30: stream translation is incremental: the frame produced from backend *)
(* line i is yielded to the consumer before line i+1 is read, so the       *)
(* translator never holds a produced frame back when it reads a line, and  *)
(* it does not wait for the end of the backend stream before emitting.     *)
(***************************************************************************)
C30_Incremental ==
    [][\A r \in Runs :
        Reads(r) =>
            /\ Held(r) = 0
            /\ Held(r)' = 0
            /\ Produces(Line(r), r) =>
                  out'[r] = Append(out[r],
                                   ProcessLine(Line(r), chunk_id[r], model[r]).frame)
      ]_vars

\* two frames are out while the backend stream has lines left to send
C30_Witness ==
    /\ pc[1] = "streaming"
    /\ pos[1] = 2
    /\ Len(lines[1]) > 3
    /\ Len(out[1]) = 2
    /\ Held(1) = 0


(***************************************************************************)
(* Cancellation.  The consumer of the generator (StreamingResponse) closes *)
(* it when the client goes away: GeneratorExit, or the cancellation of the *)
(* task, is raised where the generator is suspended, inside the body of    *)
(* `async with self.client.stream(...)`, and leaves that body.             *)
(***************************************************************************)
\* a generator whose response was opened without a context manager
CloseLeavingOpen(r) ==
    /\ pc[r] \in {"created", "streaming"}
    /\ pc' = [pc EXCEPT ![r] = "closed"]
    /\ UNCHANGED <<lines, model, pos, out, err, status, chunk_id, calls,
                   reqvars, conn>>

\* the generator is closed: before its first step, or where it is suspended
Close(r) ==
    /\ pc[r] \in {"created", "streaming"}
    /\ pc' = [pc EXCEPT ![r] = "closed"]
    /\ IF conn[r] = "open" THEN Release(r) ELSE UNCHANGED conn
    /\ UNCHANGED <<lines, model, pos, out, err, status, chunk_id, calls,
                   reqvars>>

CloseLineSet == TwinLineSet \cup UnexpectedPayloadLines \cup BlankLines

InitClose ==
    /\ \E ls \in SeqsUpTo(CloseLineSet, MaxLines) : lines = <<ls, <<>>>>
    /\ model = [r \in Runs |-> "glm-4.5"]
    /\ pc = <<"created", "idle">>
    /\ pos = [r \in Runs |-> 0]
    /\ out = [r \in Runs |-> <<>>]
    /\ err = [r \in Runs |-> "none"]
    /\ status = [r \in Runs |-> 0]
    /\ chunk_id = [r \in Runs |-> ""]
    /\ conn = [r \in Runs |-> "none"]
    /\ app = Serving
    /\ StreamReady

NextClose ==
    \/ Start(1)
    \/ NextLine(1)
    \/ EndOfLines(1)
    \/ ReadFails(1)
    \/ Close(1)

SpecClose == InitClose /\ [][NextClose]_vars

\* stream r is over: by [DONE], by the end of the backend stream, by an
\* exception, or because its consumer closed it
Over(r) == pc[r] \in {"ended", "failed", "closed"}

\* C31: once the consumer has closed a stream, no further backend line is
\* read and no frame is produced for it, and the backend connection is
\* released; the connection is released the same way when the stream is left
\* on [DONE], at the end of the backend stream and on an error: no stream is
\* over with its backend connection still open.
C31_ConnectionReleased ==
    [][\A r \in Runs :
        /\ pc[r] = "closed" =>
                /\ pos'[r] = pos[r]
                /\ out'[r] = out[r]
                /\ calls'[r] = calls[r]
                /\ pc'[r] = "closed"
        /\ Over(r)' => conn'[r] # "open"
        /\ conn[r] = "released" => conn'[r] = "released"]_vars

\* a stream closed between two frames, lines of the backend still unread
C31_Witness ==
    /\ pc[1] = "closed"
    /\ conn[1] = "released"
    /\ Len(out[1]) = 1
    /\ pos[1] < Len(lines[1])


(***************************************************************************)
(* Runs of the loop that are not abandoned: the event loop keeps stepping  *)
(* the generator while its consumer asks for the next frame, and the       *)
(* backend sends a finite stream.                                          *)
(***************************************************************************)
\* one line of each kind of outcome: frames, a skip, [DONE], an exception
TerminatingLineSet ==
    { DataLine(Event("content_block_start")),
      DataLine(TextDelta("Hi")),
      DataLine(MsgDelta(PyStr("max_tokens"))),
      <<TEvent, TText("content_block_delta")>>,
      <<TData, TDone>>,
      DataLine(None) }

InitTerminating ==
    /\ \E ls \in SeqsUpTo(TerminatingLineSet, MaxLines) : lines = <<ls, <<>>>>
    /\ model = [r \in Runs |-> "glm-4.5"]
    /\ pc = <<"created", "idle">>
    /\ pos = [r \in Runs |-> 0]
    /\ out = [r \in Runs |-> <<>>]
    /\ err = [r \in Runs |-> "none"]
    /\ status = [r \in Runs |-> 0]
    /\ chunk_id = [r \in Runs |-> ""]
    /\ conn = [r \in Runs |-> "none"]
    /\ app = Serving
    /\ StreamReady

SpecTerminating == InitTerminating /\ [][Next]_vars /\ WF_vars(Next)

IsPrefix(s, t) == Len(s) <= Len(t) /\ SubSeq(t, 1, Len(s)) = s

\* C33: each backend line read produces zero or one outgoing frame, never
\* more, so a stream never has more frames than lines read; and for a finite
\* backend stream of n lines the loop terminates, with at most n frames out.
C33_AtMostOneFramePerLine ==
    /\ [][\A r \in Runs :
            /\ Reads(r) =>
                    /\ pos'[r] = pos[r] + 1
                    /\ IsPrefix(out[r], out'[r])
                    /\ Len(out'[r]) <= Len(out[r]) + 1
            /\ ~Reads(r) => out'[r] = out[r]
         ]_vars
    /\ [](\A r \in Runs : Len(out[r]) <= pos[r] /\ pos[r] <= Len(lines[r]))
    /\ <>(pc[1] \in {"ended", "failed"})

\* a stream of two lines ended with two frames out
C33_Witness ==
    /\ pc[1] = "ended"
    /\ Len(lines[1]) = 2
    /\ pos[1] = 2
    /\ Len(out[1]) = 2
    /\ out[1][2].kind = "chunk"


\* the stop reason a message_delta line carries, None when it carries none
StopReasonOf(l) ==
    IF IsEvent(l, "message_delta")
    THEN LET d == Get(Parsed(l).v, "delta", PyDict(EmptyDict)) IN
         IF IsDict(d) THEN Get(d, "stop_reason", None) ELSE None
    ELSE None

\* the frame stream r has just emitted
Emitted(r) == Last(out'[r])

\* C36: in every translated stream, whatever the backend sends, a chunk with
\* a non-null finish_reason has an empty delta, its finish_reason is "stop"
\* or "length", and it is "length" only for a message_delta whose stop reason
\* is max_tokens; a chunk that carries role or content has finish_reason null.
C36_FinishChunkShape ==
    [][\A r \in Runs :
        (Reads(r) /\ out'[r] # out[r] /\ Emitted(r).kind = "chunk") =>
            LET f == Emitted(r) IN
            /\ f.finish_reason # None =>
                    /\ f.delta = EmptyDict
                    /\ f.finish_reason \in {PyStr("stop"), PyStr("length")}
                    /\ f.finish_reason = PyStr("length") =>
                            StopReasonOf(Line(r)) = PyStr("max_tokens")
            /\ ("role" \in DOMAIN f.delta \/ "content" \in DOMAIN f.delta) =>
                    f.finish_reason = None
      ]_vars

\* a content chunk, then the finish chunk of an unlisted stop reason
C36_Witness ==
    /\ Len(out[1]) = 2
    /\ out[1][1].delta = [content |-> PyStr("Hi")]
    /\ out[1][1].finish_reason = None
    /\ StopReasonOf(lines[1][2]) = PyStr("tool_use")
    /\ out[1][2].delta = EmptyDict
    /\ out[1][2].finish_reason = PyStr("stop")


(***************************************************************************)
(* Streams of message_delta events: with a stop reason of the table, with  *)
(* one outside it, with none (the key missing, null, empty), with a stop   *)
(* reason or a delta of another JSON type; among content and [DONE].       *)
(***************************************************************************)
StopReasonLineSet ==
    { DataLine(TextDelta("Hi")),
      DataLine(MsgDelta(PyStr("end_turn"))),
      DataLine(MsgDelta(PyStr("max_tokens"))),
      DataLine(MsgDelta(PyStr("tool_use"))),
      DataLine(MsgDelta(PyStr(""))),
      DataLine(MsgDelta(None)),
      DataLine(Event("message_delta")),
      DataLine(PyDict([type |-> PyStr("message_delta"), delta |-> PyDict(EmptyDict)])),
      DataLine(PyDict([type |-> PyStr("message_delta"), delta |-> PyStr("x")])),
      DataLine(MsgDelta(PyList(1))),
      <<TData, TDone>> }

InitStopReasons ==
    /\ \E ls \in SeqsUpTo(StopReasonLineSet, MaxLines) : lines = <<ls, <<>>>>
    /\ model = [r \in Runs |-> "glm-4.5"]
    /\ pc = <<"created", "idle">>
    /\ pos = [r \in Runs |-> 0]
    /\ out = [r \in Runs |-> <<>>]
    /\ err = [r \in Runs |-> "none"]
    /\ status = [r \in Runs |-> 0]
    /\ chunk_id = [r \in Runs |-> ""]
    /\ conn = [r \in Runs |-> "none"]
    /\ app = Serving
    /\ StreamReady

SpecStopReasons == InitStopReasons /\ [][Next]_vars

\* the line is a message_delta event whose delta, when present, is an object
IsMessageDelta(l) ==
    /\ IsEvent(l, "message_delta")
    /\ "delta" \in DOMAIN Parsed(l).v.f => HasDictDelta(l)

\* the number of lines of stream r whose translation has completed: the lines
\* read, less the line on which the translation raised
Translated(r) ==
    IF pc[r] = "failed" /\ err[r] \notin TransportErrors
    THEN pos[r] - 1 ELSE pos[r]

FinishChunks(r) ==
    { i \in 1..Len(out[r]) :
        out[r][i].kind = "chunk" /\ out[r][i].finish_reason # None }

StopReasonEvents(r) ==
    { i \in 1..Translated(r) :
        IsMessageDelta(lines[r][i]) /\ Truthy(StopReasonOf(lines[r][i])) }

\* C38: a message_delta event that carries no stop reason (the key missing,
\* null or the empty string) still emits one chunk, with an empty delta and
\* finish_reason null; and at every point of a stream the number of chunks
\* with a non-null finish_reason equals the number of message_delta events
\* with a non-empty stop reason translated so far.
C38_MessageDeltaWithoutStopReason ==
    [][\A r \in Runs :
        /\ ( /\ Reads(r)
             /\ IsMessageDelta(Line(r))
             /\ ~Truthy(StopReasonOf(Line(r))) ) => EmitsOne(r, EmptyDict, None)
        /\ Cardinality(FinishChunks(r))' = Cardinality(StopReasonEvents(r))'
      ]_vars

\* a message_delta with a null stop reason, then one cut off by max_tokens
C38_Witness ==
    /\ Len(lines[1]) = 2
    /\ lines[1][1] = DataLine(MsgDelta(None))
    /\ lines[1][2] = DataLine(MsgDelta(PyStr("max_tokens")))
    /\ pos[1] = 2
    /\ out[1] = << ChunkFrame(chunk_id[1], model[1], EmptyDict, None),
                   ChunkFrame(chunk_id[1], model[1], EmptyDict, PyStr("length")) >>


(***************************************************************************)
(* Two runs of the translator on inputs that differ by the lines without a *)
(* payload: run 1 reads a backend stream with blank lines and lines that   *)
(* announce an event kind among its lines, run 2, started when run 1 has   *)
(* run to completion, reads the same stream with every such line removed.  *)
(***************************************************************************)
\* the line is empty or whitespace only
IsBlank(l) == \A i \in 1..Len(l) : l[i] = TWs

\* the line is 'event: <kind>'
AnnouncesEvent(l) == Len(l) = 2 /\ l[1] = TEvent /\ l[2].k = "text"

WithoutPayload(l) == IsBlank(l) \/ AnnouncesEvent(l)

PayloadFreeLines ==
    BlankLines \cup { <<TEvent, TText(kind)>> : kind \in {"content_block_delta", "message_stop"} }

PayloadTwinLineSet ==
    { DataLine(Event("content_block_start")),
      DataLine(TextDelta("Hi")),
      DataLine(MsgDelta(PyStr("max_tokens"))),
      DataLine(Event("message_stop")),
      DataLine(None),
      <<TData, TText("oops")>>,
      <<TData, TDone>> }

\* the stream ls with every line without a payload removed
RECURSIVE PayloadLines(_)
PayloadLines(ls) ==
    IF ls = <<>> THEN <<>>
    ELSE IF WithoutPayload(Head(ls)) THEN PayloadLines(Tail(ls))
    ELSE <<Head(ls)>> \o PayloadLines(Tail(ls))

InitPayloadTwin ==
    /\ \E ls \in SeqsUpTo(PayloadTwinLineSet \cup PayloadFreeLines, MaxLines + 1) :
            lines = <<ls, PayloadLines(ls)>>
    /\ model = [r \in Runs |-> "glm-4.5"]
    /\ pc = [r \in Runs |-> "created"]
    /\ pos = [r \in Runs |-> 0]
    /\ out = [r \in Runs |-> <<>>]
    /\ err = [r \in Runs |-> "none"]
    /\ status = [r \in Runs |-> 0]
    /\ chunk_id = [r \in Runs |-> ""]
    /\ conn = [r \in Runs |-> "none"]
    /\ app = Serving
    /\ StreamReady

SpecPayloadTwin == InitPayloadTwin /\ [][NextTwin]_vars

\* C34: a blank line (empty or whitespace only) and a line that only
\* announces an event kind produce no frame and no error; and a stream
\* translates to the same frames, and ends the same way, as the stream
\* without these lines.
C34_PayloadFreeLinesTransparent ==
    [][ /\ \A r \in Runs :
            (Reads(r) /\ WithoutPayload(Line(r))) =>
                /\ EmitsNothing(r)
                /\ pc'[r] = "streaming"
                /\ err'[r] = "none"
        /\ (Completed(1)' /\ Completed(2)') =>
                /\ Shape(out'[1]) = Shape(out'[2])
                /\ pc'[1] = pc'[2]
                /\ err'[1] = err'[2]
      ]_vars

\* an event line and a blank line around the one line that produced a chunk
C34_Witness ==
    /\ pc[1] = "ended" /\ pc[2] = "ended"
    /\ Len(lines[1]) = 3 /\ Len(lines[2]) = 1
    /\ AnnouncesEvent(lines[1][1])
    /\ lines[1][3] = <<TWs>>
    /\ Len(out[1]) = 1 /\ Len(out[2]) = 1
    /\ out[1][1].delta = [content |-> PyStr("Hi")]


\* request r asked for a stream
Streamed(r) == Truthy(req[r].stream)

\* the backend refused the streamed POST of request r, or could not be reached
RefusedStream(r) ==
    /\ Streamed(r)
    /\ pc[r] = "failed"
    /\ err[r] \in {"ConnectError", "HTTPStatusError"}

\* C37: for stream=true the endpoint answers with the 200 event-stream
\* response before the backend is contacted: the backend call is made only
\* by a step of the generator, when that response is already the answer.
\* So a backend rejection (non-2xx) or a connection failure leaves a stream
\* of zero frames, without [DONE], and the answer stays the 200 stream: no
\* error body is produced, the handlers of chat_completion and of the
\* endpoint are never run for it.
C37_StreamFailureUnobserved ==
    [][\A r \in Runs :
        Streamed(r) =>
            /\ calls'[r] # calls[r] => resp[r] = StreamingResponse
            /\ resp[r] = StreamingResponse => resp'[r] = StreamingResponse
            /\ pc'[r] = "created" => (calls'[r] = 0 /\ conn'[r] = "none")
            /\ RefusedStream(r)' =>
                    /\ out'[r] = <<>>
                    /\ resp'[r] = StreamingResponse
                    /\ resp'[r].status_code = 200
                    /\ resp'[r].error = EmptyDict
      ]_vars

\* the backend answered 500 to the streamed POST: the client has a 200 stream
\* without a frame
C37_Witness ==
    /\ RefusedStream(1)
    /\ status[1] = 500
    /\ calls[1] = 1
    /\ resp[1] = StreamingResponse
    /\ out[1] = <<>>


(***************************************************************************)
(* Requests that set the parameters the backend has no counterpart for.    *)
(***************************************************************************)
ForwardedMessages ==
    { <<Message("user", PyStr("Hello"), None)>>,
      <<Message("system", PyStr("Be brief."), None),
        Message("user", PyStr("Hello"), PyStr("bob"))>> }

InitForwarded ==
    /\ lines = [r \in Runs |-> <<>>]
    /\ model = [r \in Runs |-> "glm-4.5"]
    /\ pc = <<"received", "idle">>
    /\ pos = [r \in Runs |-> 0]
    /\ out = [r \in Runs |-> <<>>]
    /\ err = [r \in Runs |-> "none"]
    /\ status = [r \in Runs |-> 0]
    /\ chunk_id = [r \in Runs |-> ""]
    /\ conn = [r \in Runs |-> "none"]
    /\ app = Serving
    /\ config = DefaultConfig
    /\ \E messages \in ForwardedMessages,
          max_tokens \in {None, PyNum(100)},
          stop \in {None, PyStr("END")},
          temperature \in {None, PyFloat(7)},
          top_p \in {None, PyFloat(10)},
          stream \in BOOLEAN,
          n \in {PyNum(1), PyNum(2)},
          presence_penalty \in {PyNum(0), PyFloat(5)},
          frequency_penalty \in {PyNum(0), PyFloat(5)},
          logit_bias \in {None, PyDict([t50256 |-> PyNum(0 - 100)])},
          user \in {None, PyStr("alice")} :
            req = << [Request(messages, max_tokens, stop, temperature, top_p,
                              PyBool(stream))
                        EXCEPT !.n = n,
                               !.presence_penalty = presence_penalty,
                               !.frequency_penalty = frequency_penalty,
                               !.logit_bias = logit_bias,
                               !.user = user],
                     DefaultRequest(FALSE) >>
    /\ zai_request = [r \in Runs |-> EmptyDict]
    /\ calls = [r \in Runs |-> 0]
    /\ resp = [r \in Runs |-> NoResponse]
    /\ posted = [r \in Runs |-> NotPosted]
    /\ http_exception_str = "status_detail"

SpecForwarded == InitForwarded /\ [][NextTransform]_vars

BackendKeys ==
    {"model", "messages", "max_tokens", "stream", "system", "temperature",
     "top_p", "stop_sequences"}

RequiredBackendKeys == {"model", "messages", "max_tokens", "stream"}

NeverForwarded ==
    {"n", "presence_penalty", "frequency_penalty", "logit_bias", "user"}

validate_open_port_range(cfg) ==
    IF cfg.port <= 1 \/ cfg.port >= 65535
    THEN Raises(Exc("ValueError", "Invalid port"))
    ELSE IF cfg.max_tokens < 1
    THEN Raises(Exc("ValueError", "max_tokens must be positive"))
    ELSE IF ~(0 <= cfg.temperature.tenths /\ cfg.temperature.tenths <= 20)
    THEN Raises(Exc("ValueError", "temperature must be between 0 and 2"))
    ELSE IF cfg.timeout < 1
    THEN Raises(Exc("ValueError", "timeout must be positive"))
    ELSE Returns(None)

\* Config.validate
validate(cfg) ==
    IF cfg.port < 1 \/ cfg.port > 65535
    THEN Raises(Exc("ValueError", "Invalid port"))
    ELSE IF cfg.max_tokens < 1
    THEN Raises(Exc("ValueError", "max_tokens must be positive"))
    ELSE IF ~(0 <= cfg.temperature.tenths /\ cfg.temperature.tenths <= 20)
    THEN Raises(Exc("ValueError", "temperature must be between 0 and 2"))
    ELSE IF cfg.timeout < 1
    THEN Raises(Exc("ValueError", "timeout must be positive"))
    ELSE Returns(None)

\* create_app(config): validate, then the FastAPI application and ZAIProxy
create_app ==
    /\ app = Configuring
    /\ LET v == validate(config) IN
       app' = IF v.act = "raise" THEN Refused(v.exc) ELSE Serving
    /\ UNCHANGED <<lines, model, pc, pos, out, err, status, chunk_id, config,
                   req, zai_request, calls, resp, posted, http_exception_str,
                   conn>>

Ports == {0 - 1, 0, 1, 2, DefaultPort, 65534, 65535, 65536, 70000}
ConfigMaxTokens == {0 - 100, 0, 1, DefaultMaxTokens}
ConfigTemperatures == {0 - 1, 0, 7, 9, 20, 21}
Timeouts == {0 - 10, 0, 1, DefaultTimeout}

InitConfig ==
    /\ lines = [r \in Runs |-> <<>>]
    /\ model = [r \in Runs |-> "glm-4.5"]
    /\ pc = [r \in Runs |-> "idle"]
    /\ pos = [r \in Runs |-> 0]
    /\ out = [r \in Runs |-> <<>>]
    /\ err = [r \in Runs |-> "none"]
    /\ status = [r \in Runs |-> 0]
    /\ chunk_id = [r \in Runs |-> ""]
    /\ conn = [r \in Runs |-> "none"]
    /\ app = Configuring
    /\ \E port \in Ports, max_tokens \in ConfigMaxTokens,
          temperature \in ConfigTemperatures, timeout \in Timeouts :
            config = [DefaultConfig EXCEPT !.port = port,
                                           !.max_tokens = max_tokens,
                                           !.temperature = PyFloat(temperature),
                                           !.timeout = timeout]
    /\ req = [r \in Runs |-> DefaultRequest(FALSE)]
    /\ zai_request = [r \in Runs |-> EmptyDict]
    /\ calls = [r \in Runs |-> 0]
    /\ resp = [r \in Runs |-> NoResponse]
    /\ posted = [r \in Runs |-> NotPosted]
    /\ http_exception_str = "status_detail"

NextConfig == create_app

SpecConfig == InitConfig /\ [][NextConfig]_vars

\* a configuration with a field out of its range
OutOfRange(cfg) ==
    \/ cfg.port \notin 1..65535
    \/ cfg.max_tokens < 1
    \/ cfg.temperature.tenths \notin 0..20
    \/ cfg.timeout < 1

\* C35: create_app ends with ValueError exactly when the port is outside
\* 1..65535, or max_tokens < 1, or the temperature is outside [0, 2], or
\* timeout < 1; the ports 1 and 65535 and the temperatures 0 and 2 are
\* accepted; and since validate runs before the proxy is built, an invalid
\* configuration never has a serving application.
C35_ValidateBeforeServing ==
    /\ app.state = "refused" <=> (app # Configuring /\ OutOfRange(config))
    /\ app.state = "serving" <=> (app # Configuring /\ ~OutOfRange(config))
    /\ app.state = "refused" =>
            \E text \in {"Invalid port", "max_tokens must be positive",
                         "temperature must be between 0 and 2",
                         "timeout must be positive"} :
                app.error = "ValueError: " \o text

\* the largest port and the highest temperature together are accepted
C35_Witness ==
    /\ app = Serving
    /\ config.port = 65535
    /\ config.temperature = PyFloat(20)
    /\ config.max_tokens = 1
    /\ config.timeout = 1


(***************************************************************************)
(* Two requests handled by one ZAIProxy at the same time: each streaming   *)
(* or not, with its own model and its own backend stream or backend reply; *)
(* the steps of the two interleave in every order.                         *)
(***************************************************************************)
ConcurrentLineSet ==
    { DataLine(TextDelta("Hi")),
      DataLine(MsgDelta(PyStr("max_tokens"))),
      DataLine(None),
      <<TData, TDone>> }

ConcurrentPosted ==
    { PostResponse(200, CompletionShapedBody),
      PostResponse(500, Undecodable),
      PostRaises(Exc("ConnectError", "All connection attempts failed")) }

InitConcurrent ==
    /\ \E ls \in SeqsUpTo(ConcurrentLineSet, MaxEndpointLines) :
            lines = <<ls, <<DataLine(TextDelta("!")), <<TData, TDone>>>>>>
    /\ model = <<"glm-4.5", "glm-4.5v">>
    /\ pc = [r \in Runs |-> "received"]
    /\ pos = [r \in Runs |-> 0]
    /\ out = [r \in Runs |-> <<>>]
    /\ err = [r \in Runs |-> "none"]
    /\ status = [r \in Runs |-> 0]
    /\ chunk_id = [r \in Runs |-> ""]
    /\ conn = [r \in Runs |-> "none"]
    /\ app = Serving
    /\ config = DefaultConfig
    /\ req \in [Runs -> {DefaultRequest(TRUE), DefaultRequest(FALSE)}]
    /\ zai_request = [r \in Runs |-> EmptyDict]
    /\ calls = [r \in Runs |-> 0]
    /\ resp = [r \in Runs |-> NoResponse]
    /\ posted \in [Runs -> ConcurrentPosted \cup {NotPosted}]
    /\ \A r \in Runs : posted[r] = NotPosted <=> Truthy(req[r].stream)
    /\ http_exception_str \in HTTPExceptionStrs

SpecConcurrent == InitConcurrent /\ [][NextEndpoint]_vars

\* everything the model holds for request r
Local(r) ==
    <<lines[r], model[r], pc[r], pos[r], out[r], err[r], status[r],
      chunk_id[r], req[r], zai_request[r], calls[r], resp[r], posted[r],
      conn[r]>>

\* what the requests have in common: the configuration and the process
Shared == <<config, http_exception_str, app>>

\* the frames of stream r are those of its own lines, under its own id and model
OwnFrames(r) ==
    /\ out[r] = FramesUpTo(r, pos[r])
    /\ \A i \in 1..Len(out[r]) :
            out[r][i].kind = "chunk" =>
                (out[r][i].id = chunk_id[r] /\ out[r][i].model = model[r])

\* the answer to unary request r is the one its own backend reply gives
OwnResponse(r) ==
    Answered(r) =>
        \E hex \in Hex8 :
            resp[r] = chat_completions(posted[r], model[r], hex, http_exception_str)

\* C32: two chat completions handled by one proxy do not interfere, in any
\* interleaving of their steps: a step of one request changes nothing of the
\* other and nothing they share, the frames of a stream are at every point
\* the translation of the lines it has read itself, each chunk with the
\* stream's own id and model, and a unary response is the translation of its
\* own backend reply.
C32_NoInterference ==
    [][ /\ \A r \in Runs : Local(r)' # Local(r) =>
                \A q \in Runs \ {r} : Local(q)' = Local(q)
        /\ Shared' = Shared
        /\ \A r \in Runs : OwnFrames(r)' /\ OwnResponse(r)'
      ]_vars

\* both streams under way at once, with different ids and models, each with
\* a frame out
C32_Witness ==
    /\ pc[1] = "streaming" /\ pc[2] = "streaming"
    /\ chunk_id[1] # chunk_id[2]
    /\ Len(out[1]) = 1 /\ Len(out[2]) = 1
    /\ out[1][1].id = chunk_id[1] /\ out[1][1].model = "glm-4.5"
    /\ out[2][1].id = chunk_id[2] /\ out[2][1].model = "glm-4.5v"

====
